---- MODULE Spec2Model ----
(***************************************************************************)
(* Rule and declaration list parsing of rust-cssparser                     *)
(* (src/src/rules_and_declarations.rs) over the delimited Parser.          *)
(*                                                                         *)
(* The input is a sequence of token kinds.  A position is the 1-based      *)
(* index of the next token; Len(input) + 1 is the end of input.            *)
(***************************************************************************)
EXTENDS Integers, Sequences, FiniteSets, TLC

VARIABLES
    input,      \* the token kinds of the source text
    text,       \* the code points each token carries, where they matter
    number,     \* the NumericValue of each Number or Dimension token
    kind,       \* which list parser runs: "declarations", "stylesheet", "nested"
    pos,        \* self.input.position(): index of the next token
    items,      \* the items next() has yielded so far: [start, res]
    last,       \* what the latest call of next() did, in detail
    done        \* next() has returned None

vars == <<input, text, number, kind, pos, items, last, done>>

\* Every input of at most MaxLen tokens is enumerated.
MaxLen == 3

TokenKinds ==
    {"WhiteSpace", "Semicolon", "Ident", "Colon", "AtKeyword",
     "CurlyBracketBlock", "CloseCurlyBracket", "CDO"}

RECURSIVE SeqsUpTo(_)
SeqsUpTo(n) ==
    IF n = 0 THEN {<<>>}
    ELSE LET shorter == SeqsUpTo(n - 1)
         IN  shorter \cup
             {Append(s, t) : s \in {x \in shorter : Len(x) = n - 1}, t \in TokenKinds}

\* Longer inputs: the scenarios of spec.md 8 and inputs with a closed,
\* non-empty block between two items.
Scenarios ==
    { \* a { b: c }
      <<"Ident", "WhiteSpace", "CurlyBracketBlock", "WhiteSpace", "Ident",
        "Colon", "WhiteSpace", "Ident", "WhiteSpace", "CloseCurlyBracket">>,
      \* @import url(x);
      <<"AtKeyword", "WhiteSpace", "Url", "Semicolon">>,
      \* a {
      <<"Ident", "WhiteSpace", "CurlyBracketBlock">>,
      \* color: red; bogus; width: 1px
      <<"Ident", "Colon", "WhiteSpace", "Ident", "Semicolon", "WhiteSpace",
        "Ident", "Semicolon", "WhiteSpace", "Ident", "Colon", "WhiteSpace",
        "Dimension">>,
      \* @x { y; z } w: v
      <<"AtKeyword", "WhiteSpace", "CurlyBracketBlock", "Ident", "Semicolon",
        "Ident", "CloseCurlyBracket", "Ident", "Colon", "Ident">>,
      \* a; b { c } @d e { f } g
      <<"Ident", "Semicolon", "Ident", "CurlyBracketBlock", "Ident",
        "CloseCurlyBracket", "AtKeyword", "Ident", "CurlyBracketBlock", "Ident",
        "CloseCurlyBracket", "Ident">>,
      \* a: {b} c; d
      <<"Ident", "Colon", "CurlyBracketBlock", "Ident", "CloseCurlyBracket",
        "Ident", "Semicolon", "Ident">>,
      \* <!-- a {} -->
      <<"CDO", "Ident", "CurlyBracketBlock", "CloseCurlyBracket", "CDC">> }

Inputs == SeqsUpTo(MaxLen) \cup Scenarios

EndOfInput == Len(input) + 1

\* What a token that is not numeric carries for a NumericValue: int_value is
\* an Option, <<>> for None and <<v>> for Some(v).
NoNumber == [representation |-> <<>>, int_value |-> <<>>]

----------------------------------------------------------------------------
(* The delimited Parser (spec.md 4.C, 4.D).                                *)

\* The delimiter a token stands for, if any (spec.md 4.D: the delimiter
\* bitset is a subset of Semicolon, Bang, Comma, CurlyBracketBlock).
DelimiterOf(tok) ==
    CASE tok = "Semicolon" -> "Semicolon"
      [] tok = "CurlyBracketBlock" -> "CurlyBracketBlock"
      [] OTHER -> "None"

\* Index of the closer matching a block whose interior starts at p, or the
\* end of input when the block is never closed (spec.md 4.C).
RECURSIVE Closer(_, _)
Closer(p, depth) ==
    IF p > Len(input) THEN EndOfInput
    ELSE IF input[p] = "CurlyBracketBlock" THEN Closer(p + 1, depth + 1)
    ELSE IF input[p] = "CloseCurlyBracket"
         THEN IF depth = 0 THEN p ELSE Closer(p + 1, depth - 1)
    ELSE Closer(p + 1, depth)

\* Position just after the block opened at p.
BlockEnd(p) ==
    LET c == Closer(p + 1, 0) IN IF c > Len(input) THEN EndOfInput ELSE c + 1

\* Position just after the component value that starts at p.
AfterToken(p) ==
    IF input[p] = "CurlyBracketBlock" THEN BlockEnd(p) ELSE p + 1

\* Parser::next_including_whitespace_and_comments on a parser at p whose
\* view ends at end and whose delimiters are stop.
next_including_whitespace_and_comments(p, end, stop) ==
    IF p >= end \/ DelimiterOf(input[p]) \in stop
    THEN [tok |-> "None", at |-> p, pos |-> p]
    ELSE [tok |-> input[p], at |-> p, pos |-> AfterToken(p)]

\* Parser::next: the same, past whitespace and comments.
RECURSIVE next(_, _, _)
next(p, end, stop) ==
    LET t == next_including_whitespace_and_comments(p, end, stop)
    IN  IF t.tok \in {"WhiteSpace", "Comment"} THEN next(t.pos, end, stop) ELSE t

\* Parser::expect_colon: failure leaves the position unchanged.
expect_colon(p, end, stop) ==
    LET t == next(p, end, stop)
    IN  IF t.tok = "Colon" THEN [ok |-> TRUE, pos |-> t.pos]
        ELSE [ok |-> FALSE, pos |-> p]

\* The part of parse_until_before that runs after the closure: advance up
\* to, not past, the first delimiter of stop.
RECURSIVE AdvanceToDelimiter(_, _, _)
AdvanceToDelimiter(p, end, stop) ==
    IF p >= end \/ DelimiterOf(input[p]) \in stop THEN p
    ELSE AdvanceToDelimiter(AfterToken(p), end, stop)

\* Parser::parse_until_before(delims, f), f having left its parser at p.
parse_until_before(p, end, stop, delims) ==
    AdvanceToDelimiter(p, end, stop \cup delims)

\* Parser::parse_until_after(delims, f): also consume the delimiter.
parse_until_after(p, end, stop, delims) ==
    LET q == parse_until_before(p, end, stop, delims)
    IN  IF q < end THEN AfterToken(q) ELSE q

\* Parser::expect_ident: failure leaves the position unchanged.
expect_ident(p, end, stop) ==
    LET t == next(p, end, stop)
    IN  IF t.tok = "Ident" THEN [ok |-> TRUE, pos |-> t.pos]
        ELSE [ok |-> FALSE, pos |-> p]

\* u8::to_ascii_lowercase on a code point: only A-Z are folded.
to_ascii_lowercase(ch) == IF ch >= 65 /\ ch <= 90 THEN ch + 32 ELSE ch

\* str::eq_ignore_ascii_case.
eq_ignore_ascii_case(a, b) ==
    /\ Len(a) = Len(b)
    /\ \A i \in 1 .. Len(a) : to_ascii_lowercase(a[i]) = to_ascii_lowercase(b[i])

\* Parser::expect_delim(ch): failure leaves the position unchanged.
expect_delim(p, end, stop, ch) ==
    LET t == next(p, end, stop)
    IN  IF t.tok = "Delim" /\ text[t.at] = <<ch>>
        THEN [ok |-> TRUE, pos |-> t.pos]
        ELSE [ok |-> FALSE, pos |-> p]

\* Parser::expect_ident_matching(name): ASCII case-insensitive.
expect_ident_matching(p, end, stop, name) ==
    LET t == next(p, end, stop)
    IN  IF t.tok = "Ident" /\ eq_ignore_ascii_case(text[t.at], name)
        THEN [ok |-> TRUE, pos |-> t.pos]
        ELSE [ok |-> FALSE, pos |-> p]

\* Parser::expect_exhausted: nothing but whitespace and comments is left.
expect_exhausted(p, end, stop) == next(p, end, stop).tok = "None"

\* Parser::parse_entirely(f), r being what f returned and where it left the
\* parser: extra input makes the result an error.
parse_entirely(r, end, stop) ==
    IF expect_exhausted(r.pos, end, stop) THEN r ELSE [r EXCEPT !.res = "Err"]

\* A user callback given a parser at p reads k tokens from it.
RECURSIVE UserReads(_, _, _, _)
UserReads(p, end, stop, k) ==
    LET t == next_including_whitespace_and_comments(p, end, stop)
    IN  IF k = 0 \/ t.tok = "None" THEN [pos |-> p, seen |-> {}]
        ELSE LET r == UserReads(t.pos, end, stop, k - 1)
             IN  [pos |-> r.pos, seen |-> {p} \cup r.seen]

\* One invocation of a user callback, as the log keeps it.
Call(cb, ret, from, reads) ==
    [cb |-> cb, ret |-> ret, from |-> from, seen |-> reads.seen]

----------------------------------------------------------------------------
(* The rule and declaration engine (src/src/rules_and_declarations.rs).    *)

\* '!'
Bang == 33

\* "important"
Important == <<105, 109, 112, 111, 114, 116, 97, 110, 116>>

\* Mutant: any identifier after the `!` is accepted.
parse_important_any_ident(p, end, stop) ==
    LET bang == expect_delim(p, end, stop, Bang)
        ident == expect_ident(bang.pos, end, stop)
    IN  IF ~bang.ok THEN [res |-> "Err", pos |-> bang.pos]
        ELSE IF ~ident.ok THEN [res |-> "Err", pos |-> ident.pos]
        ELSE [res |-> "Ok", pos |-> ident.pos]

\* parse_important with input at p.
parse_important(p, end, stop) ==
    LET bang == expect_delim(p, end, stop, Bang)
        ident == expect_ident_matching(bang.pos, end, stop, Important)
    IN  IF ~bang.ok THEN [res |-> "Err", pos |-> bang.pos]
        ELSE IF ~ident.ok THEN [res |-> "Err", pos |-> ident.pos]
        ELSE [res |-> "Ok", pos |-> ident.pos]

AtRuleTypes == {"WithoutBlock", "WithBlock", "OptionalBlock"}

\* What the user callbacks of one item do: `first` is the result of
\* parse_value or parse_prelude and reads1 the number of tokens it reads,
\* `block` is the result of parse_block and reads2 the number it reads.
Choices(firsts, blocks, reads1, reads2) ==
    [first : firsts, reads1 : reads1, block : blocks, reads2 : reads2]

NoChoice == [first |-> "Err", reads1 |-> 0, block |-> "Err", reads2 |-> 0]

NoItem ==
    [kind |-> "none", start |-> 0, res |-> "None", from |-> "none",
     first |-> "none", follow |-> "none", calls |-> <<>>, range |-> <<0, 0>>]

Some(k, start_position, res, from, first, follow, calls, rangeEnd, p) ==
    [ret |-> "Some", pos |-> p,
     item |-> [kind |-> k, start |-> start_position, res |-> res, from |-> from,
               first |-> first, follow |-> follow, calls |-> calls,
               range |-> IF res = "Ok" THEN <<0, 0>>
                         ELSE <<start_position, rangeEnd>>]]

None(p) == [ret |-> "None", pos |-> p, item |-> NoItem]

\* Parser::parse_nested_block over the block opened at b, the closure being
\* the user's parse_block named cb.
parse_nested_block(b, cb, c) ==
    LET reads == UserReads(b + 1, Closer(b + 1, 0), {}, c.reads2)
    IN  [res |-> c.block, pos |-> BlockEnd(b),
         call |-> Call(cb, c.block, b + 1, reads)]

\* parse_at_rule with parse_prelude called on the input itself, not inside
\* parse_until_before: what the prelude left unread is not skipped.
at_rule_prelude_not_delimited(start_position, p, end, stop, c) ==
    LET delimiters == {"Semicolon", "CurlyBracketBlock"}
        reads == UserReads(p, end, stop \cup delimiters, c.reads1)
        before == reads.pos
        t == next(before, end, stop)
    IN  [start |-> start_position, result |-> c.first,
         prelude |-> Call("AtRuleParser::parse_prelude", c.first, p, reads),
         before |-> before, t |-> t,
         nested |-> parse_nested_block(t.at, "AtRuleParser::parse_block", c),
         without |-> Call("AtRuleParser::rule_without_block", "Ok", before,
                          [pos |-> before, seen |-> {}])]

\* parse_at_rule up to the match on the result of the prelude: the prelude
\* is parsed until before `;` or `{`, then the arms look at input.next().
at_rule_prelude(start_position, p, end, stop, c) ==
    LET delimiters == {"Semicolon", "CurlyBracketBlock"}
        reads == UserReads(p, end, stop \cup delimiters, c.reads1)
        before == parse_until_before(reads.pos, end, stop, delimiters)
        t == next(before, end, stop)
    IN  [start |-> start_position, result |-> c.first,
         prelude |-> Call("AtRuleParser::parse_prelude", c.first, p, reads),
         before |-> before, t |-> t,
         nested |-> parse_nested_block(t.at, "AtRuleParser::parse_block", c),
         without |-> Call("AtRuleParser::rule_without_block", "Ok", before,
                          [pos |-> before, seen |-> {}])]

\* An item of parse_at_rule, x being what at_rule_prelude found.
AtRule(x, res, from, calls, rangeEnd, q) ==
    Some("at-rule", x.start, res, from, x.result, x.t.tok, calls, rangeEnd, q)

\* Mutant: a block after a WithoutBlock prelude is handed to parse_block.
at_rule_WithoutBlock_enters_block(x) ==
    CASE x.t.tok \in {"Semicolon", "None"} ->
           AtRule(x, "Ok", "WithoutBlock", <<x.prelude>>, x.t.pos, x.t.pos)
      [] OTHER ->
           AtRule(x, x.nested.res, "parse_block", <<x.prelude, x.nested.call>>,
                  x.nested.pos, x.nested.pos)

\* Mutant: the rule of a WithoutBlock prelude is kept whatever follows.
at_rule_WithoutBlock_keeps_rule(x) ==
    AtRule(x, "Ok", "WithoutBlock", <<x.prelude>>, x.t.pos, x.t.pos)

\* The arm Ok(AtRuleType::WithoutBlock(rule)).
at_rule_WithoutBlock(x) ==
    CASE x.t.tok \in {"Semicolon", "None"} ->
           AtRule(x, "Ok", "WithoutBlock", <<x.prelude>>, x.t.pos, x.t.pos)
      [] x.t.tok = "CurlyBracketBlock" ->
           AtRule(x, "Err", "none", <<x.prelude>>, x.t.pos, x.t.pos)
      [] OTHER ->
           AtRule(x, "unreachable", "none", <<x.prelude>>, x.t.pos, x.t.pos)

\* Mutant: a WithBlock prelude that ends at `;` or at the end of input is
\* accepted without a block.
at_rule_WithBlock_optional(x) ==
    CASE x.t.tok = "CurlyBracketBlock" ->
           AtRule(x, x.nested.res, "parse_block", <<x.prelude, x.nested.call>>,
                  x.nested.pos, x.nested.pos)
      [] OTHER ->
           AtRule(x, "Ok", "rule_without_block", <<x.prelude, x.without>>,
                  x.t.pos, x.t.pos)

\* The arm Ok(AtRuleType::WithBlock(prelude)).
at_rule_WithBlock(x) ==
    CASE x.t.tok = "CurlyBracketBlock" ->
           AtRule(x, x.nested.res, "parse_block", <<x.prelude, x.nested.call>>,
                  x.nested.pos, x.nested.pos)
      [] x.t.tok \in {"Semicolon", "None"} ->
           AtRule(x, "Err", "none", <<x.prelude>>, x.t.pos, x.t.pos)
      [] OTHER ->
           AtRule(x, "unreachable", "none", <<x.prelude>>, x.t.pos, x.t.pos)

\* Mutant: an OptionalBlock prelude that reaches the end of input is invalid.
at_rule_OptionalBlock_needs_semicolon(x) ==
    CASE x.t.tok = "Semicolon" ->
           AtRule(x, "Ok", "rule_without_block", <<x.prelude, x.without>>,
                  x.t.pos, x.t.pos)
      [] x.t.tok = "CurlyBracketBlock" ->
           AtRule(x, x.nested.res, "parse_block", <<x.prelude, x.nested.call>>,
                  x.nested.pos, x.nested.pos)
      [] OTHER ->
           AtRule(x, "Err", "none", <<x.prelude>>, x.t.pos, x.t.pos)

\* The arm Ok(AtRuleType::OptionalBlock(prelude)).
at_rule_OptionalBlock(x) ==
    CASE x.t.tok \in {"Semicolon", "None"} ->
           AtRule(x, "Ok", "rule_without_block", <<x.prelude, x.without>>,
                  x.t.pos, x.t.pos)
      [] x.t.tok = "CurlyBracketBlock" ->
           AtRule(x, x.nested.res, "parse_block", <<x.prelude, x.nested.call>>,
                  x.nested.pos, x.nested.pos)
      [] OTHER ->
           AtRule(x, "unreachable", "none", <<x.prelude>>, x.t.pos, x.t.pos)

\* Mutant: after a rejected prelude only the `{` is consumed, not its block.
at_rule_Err_opens_block(x) ==
    AtRule(x, "Err", "none", <<x.prelude>>, x.before,
           IF x.t.tok = "None" THEN x.t.pos ELSE x.t.at + 1)

\* Mutant: a rejected prelude leaves its `;` or block unconsumed.
at_rule_Err_keeps_delimiter(x) ==
    AtRule(x, "Err", "none", <<x.prelude>>, x.before, x.before)

\* The arm Err(()): the range ends at end_position, before the delimiter.
at_rule_Err(x) ==
    CASE x.t.tok \in {"CurlyBracketBlock", "Semicolon", "None"} ->
           AtRule(x, "Err", "none", <<x.prelude>>, x.before, x.t.pos)
      [] OTHER ->
           AtRule(x, "unreachable", "none", <<x.prelude>>, x.before, x.t.pos)

parse_at_rule(start_position, p, end, stop, c) ==
    LET x == at_rule_prelude(start_position, p, end, stop, c)
    IN  CASE x.result = "WithoutBlock" -> at_rule_WithoutBlock(x)
          [] x.result = "WithBlock" -> at_rule_WithBlock(x)
          [] x.result = "OptionalBlock" -> at_rule_OptionalBlock(x)
          [] OTHER -> at_rule_Err(x)

\* Mutant: a rejected prelude returns before the block is consumed.
parse_qualified_rule_early_return(start_position, p, end, stop, c) ==
    LET reads == UserReads(p, end, stop \cup {"CurlyBracketBlock"}, c.reads1)
        result == c.first
        prelude == Call("QualifiedRuleParser::parse_prelude", result, p, reads)
        before == parse_until_before(reads.pos, end, stop, {"CurlyBracketBlock"})
        t == next(before, end, stop)
        nested == parse_nested_block(t.at, "QualifiedRuleParser::parse_block", c)
        Is(res, from, calls, q) ==
            Some("qualified rule", start_position, res, from, result, t.tok,
                 calls, q, q)
    IN  IF result # "Ok" THEN Is("Err", "none", <<prelude>>, before)
        ELSE IF t.tok = "CurlyBracketBlock"
        THEN Is(nested.res, "parse_block", <<prelude, nested.call>>, nested.pos)
        ELSE Is("Err", "none", <<prelude>>, t.pos)

\* Mutant: the range of a failed rule ends where its prelude ends.
parse_qualified_rule_range_of_prelude(start_position, p, end, stop, c) ==
    LET reads == UserReads(p, end, stop \cup {"CurlyBracketBlock"}, c.reads1)
        result == c.first
        prelude == Call("QualifiedRuleParser::parse_prelude", result, p, reads)
        before == parse_until_before(reads.pos, end, stop, {"CurlyBracketBlock"})
        t == next(before, end, stop)
        nested == parse_nested_block(t.at, "QualifiedRuleParser::parse_block", c)
        Is(res, from, calls, q) ==
            Some("qualified rule", start_position, res, from, result, t.tok,
                 calls, before, q)
    IN  IF t.tok = "CurlyBracketBlock"
        THEN IF result = "Ok"
             THEN Is(nested.res, "parse_block", <<prelude, nested.call>>,
                     nested.pos)
             ELSE Is("Err", "none", <<prelude>>, t.pos)
        ELSE Is("Err", "none", <<prelude>>, t.pos)

\* Mutant: a prelude that reaches the end of input is accepted as a rule.
parse_qualified_rule_without_block(start_position, p, end, stop, c) ==
    LET reads == UserReads(p, end, stop \cup {"CurlyBracketBlock"}, c.reads1)
        result == c.first
        prelude == Call("QualifiedRuleParser::parse_prelude", result, p, reads)
        before == parse_until_before(reads.pos, end, stop, {"CurlyBracketBlock"})
        t == next(before, end, stop)
        nested == parse_nested_block(t.at, "QualifiedRuleParser::parse_block", c)
        Is(res, from, calls, q) ==
            Some("qualified rule", start_position, res, from, result, t.tok,
                 calls, q, q)
    IN  IF t.tok = "CurlyBracketBlock"
        THEN IF result = "Ok"
             THEN Is(nested.res, "parse_block", <<prelude, nested.call>>,
                     nested.pos)
             ELSE Is("Err", "none", <<prelude>>, t.pos)
        ELSE Is(result, "none", <<prelude>>, t.pos)

parse_qualified_rule(start_position, p, end, stop, c) ==
    LET reads == UserReads(p, end, stop \cup {"CurlyBracketBlock"}, c.reads1)
        result == c.first
        prelude == Call("QualifiedRuleParser::parse_prelude", result, p, reads)
        before == parse_until_before(reads.pos, end, stop, {"CurlyBracketBlock"})
        t == next(before, end, stop)
        nested == parse_nested_block(t.at, "QualifiedRuleParser::parse_block", c)
        Is(res, from, calls, q) ==
            Some("qualified rule", start_position, res, from, result, t.tok,
                 calls, q, q)
    IN  IF t.tok = "CurlyBracketBlock"
        THEN IF result = "Ok"
             THEN Is(nested.res, "parse_block", <<prelude, nested.call>>,
                     nested.pos)
             ELSE Is("Err", "none", <<prelude>>, t.pos)
        ELSE Is("Err", "none", <<prelude>>, t.pos)

\* Mutant: a `;` between items is not skipped but starts an item.
RECURSIVE DeclarationListParser_skip_keeps_semicolon(_, _, _)
DeclarationListParser_skip_keeps_semicolon(p, end, stop) ==
    LET t == next_including_whitespace_and_comments(p, end, stop)
    IN  IF t.tok \in {"WhiteSpace", "Comment"}
        THEN DeclarationListParser_skip_keeps_semicolon(t.pos, end, stop)
        ELSE p

\* The iterations of the loop of DeclarationListParser::next that end in
\* the empty arm: the start_position of the iteration that returns.
RECURSIVE DeclarationListParser_skip(_, _, _)
DeclarationListParser_skip(p, end, stop) ==
    LET t == next_including_whitespace_and_comments(p, end, stop)
    IN  IF t.tok \in {"WhiteSpace", "Comment", "Semicolon"}
        THEN DeclarationListParser_skip(t.pos, end, stop)
        ELSE p

\* Mutant: the value is parsed whether or not a colon follows the name.
declaration_arm_optional_colon(start_position, p, end, stop, c) ==
    LET inner == stop \cup {"Semicolon"}
        colon == expect_colon(p, end, inner)
        reads == UserReads(colon.pos, end, inner, c.reads1)
        value == Call("DeclarationParser::parse_value", c.first, colon.pos, reads)
        after(q) == parse_until_after(q, end, stop, {"Semicolon"})
    IN  Some("declaration", start_position, c.first, "parse_value",
             c.first, "none", <<value>>, after(reads.pos), after(reads.pos))

\* Mutant: the value is parsed by a parser that is not delimited by `;`.
declaration_arm_undelimited(start_position, p, end, stop, c) ==
    LET colon == expect_colon(p, end, stop)
        reads == UserReads(colon.pos, end, stop, c.reads1)
        value == Call("DeclarationParser::parse_value", c.first, colon.pos, reads)
        after(q) == parse_until_after(q, end, stop, {"Semicolon"})
    IN  IF colon.ok
        THEN Some("declaration", start_position, c.first, "parse_value",
                  c.first, "none", <<value>>, after(reads.pos), after(reads.pos))
        ELSE Some("declaration", start_position, "Err", "none",
                  "none", "none", <<>>, after(colon.pos), after(colon.pos))

\* The arm Some(Token::Ident(name)) of DeclarationListParser::next, the
\* name ending at p: the closure runs until after the next `;`.
declaration_arm(start_position, p, end, stop, c) ==
    LET inner == stop \cup {"Semicolon"}
        colon == expect_colon(p, end, inner)
        reads == UserReads(colon.pos, end, inner, c.reads1)
        value == Call("DeclarationParser::parse_value", c.first, colon.pos, reads)
        after(q) == parse_until_after(q, end, stop, {"Semicolon"})
    IN  IF colon.ok
        THEN Some("declaration", start_position, c.first, "parse_value",
                  c.first, "none", <<value>>, after(reads.pos), after(reads.pos))
        ELSE Some("declaration", start_position, "Err", "none",
                  "none", "none", <<>>, after(colon.pos), after(colon.pos))

\* Mutant: a malformed item ends the iteration.
invalid_arm_aborts(start_position, p, end, stop) ==
    None(start_position)

\* Mutant: a malformed item is reported without being consumed.
invalid_arm_stuck(start_position, p, end, stop) ==
    Some("invalid", start_position, "Err", "none", "none", "none",
         <<>>, start_position, start_position)

\* The arm Some(_) of DeclarationListParser::next, the token ending at p.
invalid_arm(start_position, p, end, stop) ==
    LET after == parse_until_after(p, end, stop, {"Semicolon"})
    IN  Some("invalid", start_position, "Err", "none", "none", "none",
             <<>>, after, after)

\* Mutant: start_position is taken once, before the loop, so that it is
\* the position before the whitespace, comments and `;` passed over.
DeclarationListParser_next_start_before_loop(p, end, stop, c) ==
    LET start_position == p
        first == DeclarationListParser_skip(p, end, stop)
        t == next_including_whitespace_and_comments(first, end, stop)
    IN  CASE t.tok = "Ident" ->
               declaration_arm(start_position, t.pos, end, stop, c)
          [] t.tok = "AtKeyword" ->
               parse_at_rule(start_position, t.pos, end, stop, c)
          [] t.tok = "None" -> None(first)
          [] OTHER -> invalid_arm(start_position, t.pos, end, stop)

\* Mutant: an at-rule of a declaration list ends at the next `;` only.
DeclarationListParser_next_at_rule_to_semicolon(p, end, stop, c) ==
    LET start_position == DeclarationListParser_skip(p, end, stop)
        t == next_including_whitespace_and_comments(start_position, end, stop)
        rule == parse_at_rule(start_position, t.pos, end, stop, c)
    IN  CASE t.tok = "Ident" ->
               declaration_arm(start_position, t.pos, end, stop, c)
          [] t.tok = "AtKeyword" ->
               [rule EXCEPT !.pos = IF rule.item.follow = "CurlyBracketBlock"
                                    THEN parse_until_after(rule.pos, end, stop,
                                                           {"Semicolon"})
                                    ELSE rule.pos]
          [] t.tok = "None" -> None(start_position)
          [] OTHER -> invalid_arm(start_position, t.pos, end, stop)

\* DeclarationListParser::next with self.input at p.
DeclarationListParser_next(p, end, stop, c) ==
    LET start_position == DeclarationListParser_skip(p, end, stop)
        t == next_including_whitespace_and_comments(start_position, end, stop)
    IN  CASE t.tok = "Ident" ->
               declaration_arm(start_position, t.pos, end, stop, c)
          [] t.tok = "AtKeyword" ->
               parse_at_rule(start_position, t.pos, end, stop, c)
          [] t.tok = "None" -> None(start_position)
          [] OTHER -> invalid_arm(start_position, t.pos, end, stop)

\* Mutant: `<!--` and `-->` are skipped in nested rule lists too.
RECURSIVE RuleListParser_skip_everywhere(_, _, _, _)
RuleListParser_skip_everywhere(is_stylesheet, p, end, stop) ==
    LET t == next_including_whitespace_and_comments(p, end, stop)
    IN  IF t.tok \in {"WhiteSpace", "Comment", "CDO", "CDC"}
        THEN RuleListParser_skip_everywhere(is_stylesheet, t.pos, end, stop)
        ELSE p

\* The iterations of the loop of RuleListParser::next that end in an empty
\* arm.
RECURSIVE RuleListParser_skip(_, _, _, _)
RuleListParser_skip(is_stylesheet, p, end, stop) ==
    LET t == next_including_whitespace_and_comments(p, end, stop)
    IN  IF \/ t.tok \in {"WhiteSpace", "Comment"}
           \/ t.tok \in {"CDO", "CDC"} /\ is_stylesheet
        THEN RuleListParser_skip(is_stylesheet, t.pos, end, stop)
        ELSE p

\* Mutant: at the end of the input the qualified-rule arm is taken.
RuleListParser_next_at_end(is_stylesheet, p, end, stop, c) ==
    LET start_position == RuleListParser_skip(is_stylesheet, p, end, stop)
        t == next_including_whitespace_and_comments(start_position, end, stop)
    IN  CASE t.tok = "AtKeyword" ->
               parse_at_rule(start_position, t.pos, end, stop, c)
          [] OTHER ->
               parse_qualified_rule(start_position, start_position, end, stop, c)

\* RuleListParser::next without the reset before the qualified rule: the
\* prelude starts after the token that next_including_whitespace_and_comments
\* returned.
RuleListParser_next_without_reset(is_stylesheet, p, end, stop, c) ==
    LET start_position == RuleListParser_skip(is_stylesheet, p, end, stop)
        t == next_including_whitespace_and_comments(start_position, end, stop)
    IN  CASE t.tok = "AtKeyword" ->
               parse_at_rule(start_position, t.pos, end, stop, c)
          [] t.tok = "None" -> None(start_position)
          [] OTHER ->
               parse_qualified_rule(start_position, t.pos, end, stop, c)

\* RuleListParser::next with self.input at p.
RuleListParser_next(is_stylesheet, p, end, stop, c) ==
    LET start_position == RuleListParser_skip(is_stylesheet, p, end, stop)
        t == next_including_whitespace_and_comments(start_position, end, stop)
    IN  CASE t.tok = "AtKeyword" ->
               parse_at_rule(start_position, t.pos, end, stop, c)
          [] t.tok = "None" -> None(start_position)
          [] OTHER ->
               parse_qualified_rule(start_position, start_position, end, stop, c)

\* What the closure of a single-item entry point returns: its result, where
\* it left the parser, and the item as the callbacks made it.
Closure(r) == [res |-> r.item.res, pos |-> r.pos, item |-> r.item]

\* parse_one_declaration with input at p.
parse_one_declaration(p, end, stop, c) ==
    LET start_position == p
        name == expect_ident(p, end, stop)
        colon == expect_colon(name.pos, end, stop)
        reads == UserReads(colon.pos, end, stop, c.reads1)
        call == Call("DeclarationParser::parse_value", c.first, colon.pos, reads)
        failed(q) == Some("declaration", start_position, "Err", "none",
                          "none", "none", <<>>, q, q)
    IN  parse_entirely(
            Closure(IF ~name.ok THEN failed(name.pos)
                    ELSE IF ~colon.ok THEN failed(colon.pos)
                    ELSE Some("declaration", start_position, c.first,
                              "parse_value", c.first, "none", <<call>>,
                              reads.pos, reads.pos)),
            end, stop)

\* The iterations of the loop of parse_one_rule that end in the empty arm.
RECURSIVE parse_one_rule_skip(_, _, _)
parse_one_rule_skip(p, end, stop) ==
    LET t == next_including_whitespace_and_comments(p, end, stop)
    IN  IF t.tok \in {"WhiteSpace", "Comment"}
        THEN parse_one_rule_skip(t.pos, end, stop)
        ELSE p

\* The closure of parse_one_rule finds no token: no rule can be returned, as
\* only the user's callbacks make one.
NoRule(start_position) ==
    [res |-> "Err", pos |-> start_position,
     item |-> [NoItem EXCEPT !.kind = "empty", !.start = start_position,
                             !.res = "Err"]]

\* Mutant: the rule is returned whatever follows it.
parse_one_rule_ignores_rest(p, end, stop, c) ==
    LET start_position == parse_one_rule_skip(p, end, stop)
        t == next_including_whitespace_and_comments(start_position, end, stop)
    IN  CASE t.tok = "AtKeyword" ->
               Closure(parse_at_rule(start_position, t.pos, end, stop, c))
          [] t.tok = "None" -> NoRule(start_position)
          [] OTHER ->
               Closure(parse_qualified_rule(start_position, start_position,
                                            end, stop, c))

\* Mutant: at the end of input the qualified-rule arm is taken.
parse_one_rule_of_nothing(p, end, stop, c) ==
    LET start_position == parse_one_rule_skip(p, end, stop)
        t == next_including_whitespace_and_comments(start_position, end, stop)
    IN  parse_entirely(
            CASE t.tok = "AtKeyword" ->
                   Closure(parse_at_rule(start_position, t.pos, end, stop, c))
              [] OTHER ->
                   Closure(parse_qualified_rule(start_position, start_position,
                                                end, stop, c)),
            end, stop)

\* parse_one_rule with input at p.
parse_one_rule(p, end, stop, c) ==
    LET start_position == parse_one_rule_skip(p, end, stop)
        t == next_including_whitespace_and_comments(start_position, end, stop)
    IN  parse_entirely(
            CASE t.tok = "AtKeyword" ->
                   Closure(parse_at_rule(start_position, t.pos, end, stop, c))
              [] t.tok = "None" -> NoRule(start_position)
              [] OTHER ->
                   Closure(parse_qualified_rule(start_position, start_position,
                                                end, stop, c)),
            end, stop)

----------------------------------------------------------------------------
(* The An+B notation (src/nth.rs) over a list of component values, each a  *)
(* record [type, text, num]: text is the identifier, unit or delim as code *)
(* points, num the NumericValue.                                           *)

\* The ends of i32.
MaxI32 == 2147483647

MinI32 == -MaxI32 - 1

\* An i64 (the type of int_value) is the record [high, low] that stands
\* for high * 2^32 + low, with low in i32: `as i32` keeps the low 32 bits.
as_i32(v) == v.low

\* b_sign * b in i32, for b_sign 1 or -1: the product wraps around.
mul_i32(b_sign, b) ==
    IF b_sign = -1 /\ b = MinI32 THEN MinI32 ELSE b_sign * b

IsDigits(d) == \A i \in 1 .. Len(d) : d[i] >= 48 /\ d[i] <= 57

\* The checked accumulation of from_str::<i32>: the digits are added to a
\* positive number and subtracted from a negative one, None (<<>>) as soon
\* as the value leaves i32.
RECURSIVE from_str_digits(_, _, _)
from_str_digits(d, acc, negative) ==
    IF d = <<>> THEN <<acc>>
    ELSE IF negative
    THEN IF acc < -(MaxI32 \div 10) \/ 10 * acc < MinI32 + (d[1] - 48)
         THEN <<>>
         ELSE from_str_digits(Tail(d), 10 * acc - (d[1] - 48), negative)
    ELSE IF acc > MaxI32 \div 10 \/ 10 * acc > MaxI32 - (d[1] - 48)
         THEN <<>>
         ELSE from_str_digits(Tail(d), 10 * acc + (d[1] - 48), negative)

\* from_str::<i32>: None for a string that is not an optional `-` and
\* digits, and for a value outside i32.
from_str(string) ==
    LET negative == Len(string) >= 1 /\ string[1] = 45
        digits == IF negative THEN Tail(string) ELSE string
    IN  IF digits # <<>> /\ IsDigits(digits)
        THEN from_str_digits(digits, 0, negative)
        ELSE <<>>

\* A to_ascii_lower that leaves the string as it is.
to_ascii_lower_keeps_case(string) == string

\* StrAsciiExt::to_ascii_lower.
to_ascii_lower(string) ==
    [i \in 1 .. Len(string) |-> to_ascii_lowercase(string[i])]

\* SkipWhitespaceIterator::next with the iterator at index iter.
RECURSIVE SkipWhitespaceIterator_next(_, _)
SkipWhitespaceIterator_next(cv, iter) ==
    IF iter > Len(cv) THEN [some |-> FALSE, at |-> 0, iter |-> iter]
    ELSE IF cv[iter].type # "WhiteSpace"
    THEN [some |-> TRUE, at |-> iter, iter |-> iter + 1]
    ELSE SkipWhitespaceIterator_next(cv, iter + 1)

\* iter.iter_with_whitespace.next().
Items_next(cv, iter) ==
    IF iter > Len(cv) THEN [some |-> FALSE, at |-> 0, iter |-> iter]
    ELSE [some |-> TRUE, at |-> iter, iter |-> iter + 1]

\* The results of parse_nth, with where the iterator was left; a panic is
\* an outcome of its own.
NthOk(a, b, iter) == [res |-> "Ok", a |-> a, b |-> b, iter |-> iter]

NthErr(iter) == [res |-> "Err", a |-> 0, b |-> 0, iter |-> iter]

NthPanic(iter) == [res |-> "panic", a |-> 0, b |-> 0, iter |-> iter]

\* A has_sign that looks at the value, not at how it is written.
has_sign_of_value(value) == value.int_value[1].low < 0

has_sign(value) == value.representation[1] \in {43, 45}

parse_end(cv, iter, a, b) ==
    LET t == SkipWhitespaceIterator_next(cv, iter)
    IN  IF ~t.some THEN NthOk(a, b, t.iter) ELSE NthErr(t.iter)

parse_signless_b(cv, iter, a, b_sign) ==
    LET t == SkipWhitespaceIterator_next(cv, iter)
    IN  IF /\ t.some
           /\ cv[t.at].type = "Number"
           /\ cv[t.at].num.int_value # <<>>
           /\ ~has_sign(cv[t.at].num)
        THEN parse_end(cv, t.iter, a,
                       mul_i32(b_sign, as_i32(cv[t.at].num.int_value[1])))
        ELSE NthErr(t.iter)

parse_b(cv, iter, a) ==
    LET t == SkipWhitespaceIterator_next(cv, iter)
        tok == cv[t.at]
    IN  CASE ~t.some -> NthOk(a, 0, t.iter)
          [] tok.type = "Delim" /\ tok.text = <<43>> ->
               parse_signless_b(cv, t.iter, a, 1)
          [] tok.type = "Delim" /\ tok.text = <<45>> ->
               parse_signless_b(cv, t.iter, a, -1)
          [] tok.type = "Number" ->
               IF tok.num.int_value # <<>> /\ has_sign(tok.num)
               THEN parse_end(cv, t.iter, a, as_i32(tok.num.int_value[1]))
               ELSE NthErr(t.iter)
          [] OTHER -> NthErr(t.iter)

\* parse_n_dash_digits: Some(b), None, or the panic of its assertion.
parse_n_dash_digits(string) ==
    IF /\ Len(string) >= 3
       /\ SubSeq(string, 1, 2) = <<110, 45>>
       /\ IsDigits(SubSeq(string, 3, Len(string)))
    THEN LET result == from_str(Tail(string))
         IN  IF result # <<>> THEN [ret |-> "Some", b |-> result[1]]
             ELSE [ret |-> "panic", b |-> 0]
    ELSE [ret |-> "None", b |-> 0]

\* match parse_n_dash_digits(string) { Some(b) => parse_end(iter, a, b),
\* _ => Err(()) }
n_dash_digits_arm(cv, iter, a, string) ==
    LET r == parse_n_dash_digits(string)
    IN  CASE r.ret = "panic" -> NthPanic(iter)
          [] r.ret = "Some" -> parse_end(cv, iter, a, r.b)
          [] OTHER -> NthErr(iter)

\* The arm Some(&Dimension(ref value, ref unit)) of parse_nth.
nth_Dimension(cv, iter, tok) ==
    LET unit == to_ascii_lower(tok.text)
        a == as_i32(tok.num.int_value[1])
    IN  CASE tok.num.int_value = <<>> -> NthErr(iter)
          [] unit = <<110>> -> parse_b(cv, iter, a)
          [] unit = <<110, 45>> -> parse_signless_b(cv, iter, a, -1)
          [] OTHER -> n_dash_digits_arm(cv, iter, a, unit)

\* The arm Some(&Ident(ref value)) of parse_nth.
nth_Ident(cv, iter, tok) ==
    LET ident == to_ascii_lower(tok.text)
    IN  CASE ident = <<101, 118, 101, 110>> -> parse_end(cv, iter, 2, 0)
          [] ident = <<111, 100, 100>> -> parse_end(cv, iter, 2, 1)
          [] ident = <<110>> -> parse_b(cv, iter, 1)
          [] ident = <<45, 110>> -> parse_b(cv, iter, -1)
          [] ident = <<110, 45>> -> parse_signless_b(cv, iter, 1, -1)
          [] ident = <<45, 110, 45>> -> parse_signless_b(cv, iter, -1, -1)
          [] OTHER ->
               IF Len(ident) >= 1 /\ ident[1] = 45
               THEN n_dash_digits_arm(cv, iter, -1, Tail(ident))
               ELSE n_dash_digits_arm(cv, iter, 1, ident)

\* The arm Some(&Delim('+')) with iter.next() for the identifier, which
\* skips whitespace after the sign.
nth_Plus_skips_whitespace(cv, iter) ==
    LET t == SkipWhitespaceIterator_next(cv, iter)
        ident == to_ascii_lower(cv[t.at].text)
    IN  IF t.some /\ cv[t.at].type = "Ident"
        THEN CASE ident = <<110>> -> parse_b(cv, t.iter, 1)
               [] ident = <<110, 45>> -> parse_signless_b(cv, t.iter, 1, -1)
               [] OTHER -> n_dash_digits_arm(cv, t.iter, 1, ident)
        ELSE NthErr(t.iter)

\* The arm Some(&Delim('+')) of parse_nth.
nth_Plus(cv, iter) ==
    LET t == Items_next(cv, iter)
        ident == to_ascii_lower(cv[t.at].text)
    IN  IF t.some /\ cv[t.at].type = "Ident"
        THEN CASE ident = <<110>> -> parse_b(cv, t.iter, 1)
               [] ident = <<110, 45>> -> parse_signless_b(cv, t.iter, 1, -1)
               [] OTHER -> n_dash_digits_arm(cv, t.iter, 1, ident)
        ELSE NthErr(t.iter)

parse_nth(cv) ==
    LET t == SkipWhitespaceIterator_next(cv, 1)
        tok == cv[t.at]
    IN  CASE ~t.some -> NthErr(t.iter)
          [] tok.type = "Number" ->
               IF tok.num.int_value # <<>>
               THEN parse_end(cv, t.iter, 0, as_i32(tok.num.int_value[1]))
               ELSE NthErr(t.iter)
          [] tok.type = "Dimension" -> nth_Dimension(cv, t.iter, tok)
          [] tok.type = "Ident" -> nth_Ident(cv, t.iter, tok)
          [] tok.type = "Delim" /\ tok.text = <<43>> -> nth_Plus(cv, t.iter)
          [] OTHER -> NthErr(t.iter)

----------------------------------------------------------------------------
(* The caller: builds a list parser over the whole input and calls next(). *)

Results == {"Ok", "Err"}

\* Number of tokens left for an undelimited parser at p to return.
Available(p) ==
    Cardinality(UserReads(p, EndOfInput, {}, Len(input)).seen)

\* What the callbacks of a rule whose prelude starts at p can do: every
\* result, and every number of calls of next they can make (calls made at
\* the end of their parser return nothing).
RuleChoices(firsts, p, delimiters) ==
    LET b == parse_until_before(p, EndOfInput, {}, delimiters)
        inBlock == IF b < EndOfInput /\ input[b] = "CurlyBracketBlock"
                   THEN Available(b + 1) ELSE 0
    IN  Choices(firsts, Results, 0 .. Available(p), 0 .. inBlock)

\* What the callbacks of the item that starts at s can do.
UserChoices(s) ==
    LET t == next_including_whitespace_and_comments(s, EndOfInput, {})
    IN  CASE t.tok = "AtKeyword" ->
               RuleChoices(AtRuleTypes \cup {"Err"}, t.pos,
                           {"Semicolon", "CurlyBracketBlock"})
          [] t.tok = "None" -> {NoChoice}
          [] kind # "declarations" ->
               RuleChoices(Results, s, {"CurlyBracketBlock"})
          [] t.tok = "Ident" ->
               Choices(Results, {"Err"}, 0 .. Available(t.pos), {0})
          [] OTHER -> {NoChoice}

Yield(r) ==
    IF r.ret = "None"
    THEN /\ done' = TRUE
         /\ UNCHANGED <<pos, items, last>>
    ELSE /\ pos' = r.pos
         /\ items' = Append(items, [start |-> r.item.start, res |-> r.item.res])
         /\ last' = r.item
         /\ UNCHANGED done

\* The caller calls next() until it returns None; it gives up on an iterator
\* that has yielded more items than the input has tokens.
CallerGoesOn == ~done /\ Len(items) <= Len(input)

Init ==
    /\ input \in Inputs
    /\ text = [i \in 1 .. Len(input) |-> <<>>]
    /\ number = [i \in 1 .. Len(input) |-> NoNumber]
    /\ kind \in {"declarations", "stylesheet", "nested"}
    /\ pos = 1
    /\ items = <<>>
    /\ last = NoItem
    /\ done = FALSE

DeclarationListNext ==
    /\ kind = "declarations"
    /\ CallerGoesOn
    /\ \E c \in UserChoices(DeclarationListParser_skip(pos, EndOfInput, {})) :
          Yield(DeclarationListParser_next(pos, EndOfInput, {}, c))
    /\ UNCHANGED <<input, text, number, kind>>

RuleListNext ==
    /\ kind \in {"stylesheet", "nested"}
    /\ CallerGoesOn
    /\ \E c \in UserChoices(RuleListParser_skip(kind = "stylesheet", pos,
                                               EndOfInput, {})) :
          Yield(RuleListParser_next(kind = "stylesheet", pos, EndOfInput, {}, c))
    /\ UNCHANGED <<input, text, number, kind>>

Next == DeclarationListNext \/ RuleListNext

Spec == Init /\ [][Next]_vars

----------------------------------------------------------------------------
(* The caller of a single-item entry point: one call over the whole input. *)

\* What parse_value can do when parse_one_declaration calls it.
OneDeclarationChoices == Choices(Results, {"Err"}, 0 .. Len(input), {0})

\* The result is kept as the only item, the item of the callbacks as last.
Return(r) ==
    /\ pos' = r.pos
    /\ items' = <<[start |-> r.item.start, res |-> r.res]>>
    /\ last' = r.item
    /\ done' = TRUE

OneInit ==
    /\ input \in Inputs
    /\ text = [i \in 1 .. Len(input) |-> <<>>]
    /\ number = [i \in 1 .. Len(input) |-> NoNumber]
    /\ kind \in {"one_declaration", "one_rule"}
    /\ pos = 1
    /\ items = <<>>
    /\ last = NoItem
    /\ done = FALSE

ParseOneDeclaration ==
    /\ kind = "one_declaration"
    /\ ~done
    /\ \E c \in OneDeclarationChoices :
          Return(parse_one_declaration(pos, EndOfInput, {}, c))
    /\ UNCHANGED <<input, text, number, kind>>

ParseOneRule ==
    /\ kind = "one_rule"
    /\ ~done
    /\ \E c \in UserChoices(parse_one_rule_skip(pos, EndOfInput, {})) :
          Return(parse_one_rule(pos, EndOfInput, {}, c))
    /\ UNCHANGED <<input, text, number, kind>>

OneNext == ParseOneDeclaration \/ ParseOneRule

OneSpec == OneInit /\ [][OneNext]_vars

\* The callers of the list parsers and of the single-item entry points
\* together.
EngineInit == Init \/ OneInit

EngineNext == Next \/ OneNext

EngineSpec == EngineInit /\ [][EngineNext]_vars

----------------------------------------------------------------------------
(* The caller of parse_important: one call over tokens that carry text.    *)

RECURSIVE SeqsOf(_, _)
SeqsOf(S, n) ==
    IF n = 0 THEN {<<>>}
    ELSE LET shorter == SeqsOf(S, n - 1)
         IN  shorter \cup
             {Append(x, t) : x \in {y \in shorter : Len(y) = n - 1}, t \in S}

\* Identifiers: important, IMPORTANT, Important, the same with U+0131
\* (dotless i), U+0130 (I with dot) or U+212A (Kelvin sign) for a letter,
\* one that is too short and one that is too long.
IdentTexts ==
    { Important,
      [i \in 1 .. 9 |-> Important[i] - 32],
      [i \in 1 .. 9 |-> IF i = 1 THEN Important[i] - 32 ELSE Important[i]],
      [Important EXCEPT ![1] = 305],
      [i \in 1 .. 9 |-> IF i = 1 THEN 304 ELSE Important[i] - 32],
      [Important EXCEPT ![6] = 8490],
      SubSeq(Important, 1, 8),
      Append(Important, 115) }

ImportantTokens ==
    {[type |-> "WhiteSpace", text |-> <<32>>],
     [type |-> "Delim", text |-> <<Bang>>],
     [type |-> "Delim", text |-> <<35>>],
     [type |-> "QuotedString", text |-> Important]}
    \cup {[type |-> "Ident", text |-> t] : t \in IdentTexts}

ImportantInit ==
    /\ \E toks \in SeqsOf(ImportantTokens, MaxLen) :
          /\ input = [i \in 1 .. Len(toks) |-> toks[i].type]
          /\ text = [i \in 1 .. Len(toks) |-> toks[i].text]
          /\ number = [i \in 1 .. Len(toks) |-> NoNumber]
    /\ kind = "important"
    /\ pos = 1
    /\ items = <<>>
    /\ last = NoItem
    /\ done = FALSE

ParseImportant ==
    /\ kind = "important"
    /\ ~done
    /\ LET r == parse_important(pos, EndOfInput, {})
       IN  /\ pos' = r.pos
           /\ items' = <<[start |-> pos, res |-> r.res]>>
    /\ done' = TRUE
    /\ UNCHANGED <<input, text, number, kind, last>>

ImportantNext == ParseImportant

ImportantSpec == ImportantInit /\ [][ImportantNext]_vars

----------------------------------------------------------------------------
(* The caller of parse_nth: one component-value list, parsed once.         *)

\* The decimal digits of a natural number, as code points.
RECURSIVE DigitsOf(_)
DigitsOf(n) ==
    IF n < 10 THEN <<48 + n>> ELSE Append(DigitsOf(n \div 10), 48 + (n % 10))

\* An integer NumericValue with its sign as written (none, `+` or `-`).
Integer(sign, n) ==
    [representation |-> sign \o DigitsOf(n),
     int_value |-> <<[high |-> 0, low |-> IF sign = <<45>> THEN -n ELSE n]>>]

\* The NumericValue of `1.5`: no int_value.
OneAndAHalf == [representation |-> <<49, 46, 53>>, int_value |-> <<>>]

\* An integer NumericValue whose int_value is outside i32, from its sign
\* and digits as written and the two halves of its i64.
Wide(sign, digits, high, low) ==
    [representation |-> sign \o digits,
     int_value |-> <<[high |-> high, low |-> low]>>]

\* 2147483648 = 2^31, the same written with `+`, -2147483649 = -2^31 - 1
\* and 4294967297 = 2^32 + 1.
TwoTo31 == Wide(<<>>, DigitsOf(21474) \o DigitsOf(83648), 1, MinI32)

PlusTwoTo31 == Wide(<<43>>, DigitsOf(21474) \o DigitsOf(83648), 1, MinI32)

BelowMinI32 == Wide(<<45>>, DigitsOf(21474) \o DigitsOf(83649), -1, MaxI32)

TwoTo32AndOne == Wide(<<>>, DigitsOf(42949) \o DigitsOf(67297), 1, 1)

WhiteSpace == [type |-> "WhiteSpace", text |-> <<32>>, num |-> NoNumber]

Delim(ch) == [type |-> "Delim", text |-> <<ch>>, num |-> NoNumber]

Number(value) == [type |-> "Number", text |-> <<>>, num |-> value]

Dimension(value, unit) == [type |-> "Dimension", text |-> unit, num |-> value]

Ident(value) == [type |-> "Ident", text |-> value, num |-> NoNumber]

\* n-<digits> as code points.
NDash(n) == <<110, 45>> \o DigitsOf(n)

\* n-2147483648, whose value is the least i32, and n-2147483649.
NDashMin == NDash(21474) \o DigitsOf(83648)

NDashBelowMin == NDash(21474) \o DigitsOf(83649)

NthTokens ==
    { WhiteSpace, Delim(43), Delim(45),
      Number(Integer(<<>>, 3)), Number(Integer(<<43>>, 3)),
      Number(Integer(<<45>>, 3)), Number(OneAndAHalf), Number(TwoTo31),
      Dimension(Integer(<<>>, 2), <<110>>),
      Dimension(Integer(<<45>>, 2), <<78, 45>>),
      Dimension(Integer(<<>>, 2), NDash(4)),
      Dimension(Integer(<<>>, 2), <<112, 120>>),
      Ident(<<110>>), Ident(<<45, 110>>), Ident(<<110, 45>>),
      Ident(<<45>> \o NDash(3)),
      Ident(<<101, 118, 101, 110>>), Ident(<<79, 68, 68>>),
      Ident(<<65326>>),
      Ident(NDashBelowMin) }

\* Longer lists and rarer tokens: ` 2n + 1 `, `+n - 3 `, `+n- 3`, `-n- 3`,
\* `+n-4`, `+N`, `1.5n`, `2n-` with a signed number, `EvEn`, identifiers
\* and units n-<digits> at the ends of the i32 range, `n` with the numbers
\* `-0`, `+0` and `0`, an `n` followed by U+212A or written with U+FF4E,
\* and numbers and dimensions whose int_value is outside i32.
NthScenarios ==
    { <<WhiteSpace, Dimension(Integer(<<>>, 2), <<110>>), WhiteSpace,
        Delim(43), WhiteSpace, Number(Integer(<<>>, 1)), WhiteSpace>>,
      <<Delim(43), Ident(<<110>>), WhiteSpace, Delim(45), WhiteSpace,
        Number(Integer(<<>>, 3)), WhiteSpace>>,
      <<Delim(43), Ident(<<110, 45>>), WhiteSpace, Number(Integer(<<>>, 3))>>,
      <<Ident(<<45, 110, 45>>), WhiteSpace, Number(Integer(<<>>, 3))>>,
      <<Ident(<<45, 110, 45>>), Number(Integer(<<45>>, 3))>>,
      <<Delim(43), Ident(NDash(4))>>,
      <<Delim(43), Ident(<<78>>)>>,
      <<Delim(43), Ident(<<110>>), Number(Integer(<<43>>, 3))>>,
      <<Delim(43), Ident(<<101, 118, 101, 110>>)>>,
      <<Delim(43), WhiteSpace, Ident(<<110>>), WhiteSpace,
        Number(Integer(<<43>>, 3))>>,
      <<Dimension(OneAndAHalf, <<110>>)>>,
      <<Dimension(Integer(<<43>>, 2), <<110>>), Number(Integer(<<45>>, 1))>>,
      <<Dimension(Integer(<<>>, 2), <<110, 45>>), Number(Integer(<<43>>, 3))>>,
      <<Dimension(Integer(<<>>, 2), <<110, 45>>), WhiteSpace,
        Number(Integer(<<>>, 3)), WhiteSpace, Ident(<<110>>)>>,
      <<Ident(<<69, 118, 69, 110>>), WhiteSpace>>,
      <<Ident(NDashMin)>>,
      <<Ident(<<45>> \o NDashMin)>>,
      <<Ident(<<45>> \o NDashBelowMin), WhiteSpace>>,
      <<Dimension(Integer(<<>>, 2), NDashMin)>>,
      <<Dimension(Integer(<<>>, 2), <<78, 45>> \o DigitsOf(999999) \o DigitsOf(99999))>>,
      <<Delim(43), Ident(NDashBelowMin)>>,
      <<Delim(43), Ident(NDashMin)>>,
      <<Ident(<<110, 45, 48, 48, 55>>)>>,
      <<Ident(<<110>>), Number(Integer(<<45>>, 0))>>,
      <<Ident(<<110, 45>>), Number(Integer(<<45>>, 0))>>,
      <<Ident(<<110>>), Delim(45), Number(Integer(<<43>>, 0))>>,
      <<Ident(<<110>>), Delim(43), Number(Integer(<<>>, 0))>>,
      <<Ident(<<110, 8490>>)>>,
      <<Ident(<<65358>>), Number(Integer(<<43>>, 3))>>,
      <<Number(Integer(<<>>, MaxI32))>>,
      <<Ident(<<110>>), WhiteSpace, Delim(45), WhiteSpace,
        Number(Integer(<<>>, MaxI32))>>,
      <<Dimension(Integer(<<45>>, MaxI32), <<110>>),
        Number(Integer(<<45>>, MaxI32))>>,
      <<Number(TwoTo32AndOne)>>,
      <<Number(BelowMinI32), WhiteSpace>>,
      <<Dimension(TwoTo32AndOne, <<110>>)>>,
      <<Dimension(TwoTo31, <<110>>), Number(PlusTwoTo31)>>,
      <<Dimension(TwoTo31, <<110, 45>>), Number(Integer(<<>>, 3))>>,
      <<Dimension(BelowMinI32, NDash(4))>>,
      <<Ident(<<110>>), WhiteSpace, Number(BelowMinI32)>>,
      <<Dimension(Integer(<<>>, 2), <<110, 45>>), Number(TwoTo32AndOne)>>,
      <<Delim(43), Ident(<<110>>), Delim(45), Number(TwoTo32AndOne)>> }

NthInit ==
    /\ \E toks \in SeqsOf(NthTokens, MaxLen) \cup NthScenarios :
          /\ input = [i \in 1 .. Len(toks) |-> toks[i].type]
          /\ text = [i \in 1 .. Len(toks) |-> toks[i].text]
          /\ number = [i \in 1 .. Len(toks) |-> toks[i].num]
    /\ kind = "nth"
    /\ pos = 1
    /\ items = <<>>
    /\ last = NoItem
    /\ done = FALSE

\* The component values of the input, as parse_nth receives them.
ComponentValues ==
    [i \in 1 .. Len(input) |->
        [type |-> input[i], text |-> text[i], num |-> number[i]]]

ParseNth ==
    /\ kind = "nth"
    /\ ~done
    /\ LET r == parse_nth(ComponentValues)
       IN  /\ pos' = r.iter
           /\ last' = r
           /\ items' = <<[start |-> 1, res |-> r.res]>>
    /\ done' = TRUE
    /\ UNCHANGED <<input, text, number, kind>>

NthNext == ParseNth

NthSpec == NthInit /\ [][NthNext]_vars

----------------------------------------------------------------------------
(* The comparer of the tests (src/tests.rs) over JSON values, each a       *)
(* record [k, v] of its kind and its content; a number is counted in units *)
(* of 1e-7, so that the tolerance 1e-6 is ten units.                       *)

MaxList == 2

Tolerance == 10

JsonNumber(n) == [k |-> "Number", v |-> n]

JsonString(string) == [k |-> "String", v |-> string]

JsonBoolean(b) == [k |-> "Boolean", v |-> b]

JsonList(list) == [k |-> "List", v |-> list]

JsonObject == [k |-> "Object", v |-> <<>>]

JsonNull == [k |-> "Null", v |-> <<>>]

Abs(x) == IF x < 0 THEN -x ELSE x

\* almost_equals: "true", "false", or "fail" for fail!("Not implemented").
\* zip_all is a.iter().zip(b.iter()).all(..) from the pair at i on: the
\* pairs are compared in order up to the end of the shorter list, `all`
\* stops at the first that is not equal, and a failure inside a comparison
\* goes up.
RECURSIVE almost_equals(_, _)
RECURSIVE zip_all(_, _, _)
zip_all(a, b, i) ==
    IF i > Len(a) \/ i > Len(b) THEN "true"
    ELSE LET r == almost_equals(a[i], b[i])
         IN  IF r = "true" THEN zip_all(a, b, i + 1) ELSE r

almost_equals(a, b) ==
    CASE a.k = "Number" /\ b.k = "Number" ->
           IF Abs(a.v - b.v) < Tolerance THEN "true" ELSE "false"
      [] a.k = "String" /\ b.k = "String" ->
           IF a.v = b.v THEN "true" ELSE "false"
      [] a.k = "Boolean" /\ b.k = "Boolean" ->
           IF a.v = b.v THEN "true" ELSE "false"
      [] a.k = "List" /\ b.k = "List" -> zip_all(a.v, b.v, 1)
      [] a.k = "Object" /\ b.k = "Object" -> "fail"
      [] a.k = "Null" /\ b.k = "Null" -> "true"
      [] OTHER -> "false"

\* assert_json_eq: the test goes on ("pass") when almost_equals is true
\* and fails with the message otherwise.
assert_json_eq(results, expected) ==
    LET equals == almost_equals(results, expected)
    IN  [equals |-> equals,
         res |-> IF equals = "true" THEN "pass" ELSE "fail"]

\* The values compared: numbers 0, 9e-7 and 1e-6, strings, booleans, null,
\* an object, and the lists of up to MaxList of some of these and of the
\* lists [] and [0].
JsonAtoms ==
    { JsonNumber(0), JsonNumber(9), JsonNumber(10),
      JsonString("a"), JsonString("b"),
      JsonBoolean(TRUE), JsonBoolean(FALSE), JsonNull, JsonObject }

JsonElements ==
    { JsonNumber(0), JsonNumber(9), JsonNumber(10), JsonString("a"),
      JsonObject, JsonList(<<>>), JsonList(<<JsonNumber(0)>>) }

JsonValues ==
    JsonAtoms \cup {JsonList(l) : l \in SeqsOf(JsonElements, MaxList)}

JsonInit ==
    /\ \E results \in JsonValues, expected \in JsonValues :
          input = <<results, expected>>
    /\ text = <<>>
    /\ number = <<>>
    /\ kind = "json"
    /\ pos = 1
    /\ items = <<>>
    /\ last = NoItem
    /\ done = FALSE

AssertJsonEq ==
    /\ kind = "json"
    /\ ~done
    /\ last' = assert_json_eq(input[1], input[2])
    /\ items' = <<[start |-> 1, res |-> last'.res]>>
    /\ done' = TRUE
    /\ UNCHANGED <<input, text, number, kind, pos>>

JsonNext == AssertJsonEq

JsonSpec == JsonInit /\ [][JsonNext]_vars

----------------------------------------------------------------------------
(* Notions the properties are stated with, read off the input alone.       *)

\* Nesting depth of position i relative to position from: the number of
\* blocks opened in from .. i-1 and not closed there.
RECURSIVE DepthAt(_, _)
DepthAt(from, i) ==
    IF i <= from THEN 0
    ELSE LET d == DepthAt(from, i - 1)
         IN  CASE input[i - 1] = "CurlyBracketBlock" -> d + 1
               [] input[i - 1] = "CloseCurlyBracket" /\ d > 0 -> d - 1
               [] OTHER -> d

\* The top-level tokens of the given kinds at or after from.
TopLevel(from, kinds) ==
    {i \in from .. Len(input) : DepthAt(from, i) = 0 /\ input[i] \in kinds}

Min(S) == CHOOSE x \in S : \A y \in S : x <= y

\* The first top-level token of the given kinds at or after from, or the end
\* of input.
FirstTopLevel(from, kinds) ==
    IF TopLevel(from, kinds) = {} THEN EndOfInput ELSE Min(TopLevel(from, kinds))

TokenAt(i) == IF i > Len(input) THEN "None" ELSE input[i]

\* The position just after the closer of the block opened at b.
AfterBlock(b) ==
    LET closed == {j \in b + 1 .. EndOfInput : DepthAt(b, j) = 0}
    IN  IF closed = {} THEN EndOfInput ELSE Min(closed)

\* The positions inside the block opened at b.
Interior(b) ==
    {j \in b + 1 .. Len(input) : DepthAt(b, j) > 0 /\ DepthAt(b, j + 1) > 0}

\* The tokens a list parser skips between items.
Skipped ==
    CASE kind = "declarations" -> {"WhiteSpace", "Comment", "Semicolon"}
      [] kind = "stylesheet" -> {"WhiteSpace", "Comment", "CDO", "CDC"}
      [] OTHER -> {"WhiteSpace", "Comment"}

CallsOf(item, cb) == {i \in 1 .. Len(item.calls) : item.calls[i].cb = cb}

----------------------------------------------------------------------------
(* Properties.                                                             *)

\* C1: a failed item never ends the iteration of DeclarationListParser or
\* RuleListParser: next() returns None only when nothing but tokens skipped
\* between items is left of the input, whatever items failed before.
C1_ErrorsAreLocal ==
    done => \A i \in pos .. Len(input) : input[i] \in Skipped

\* An item failed, a later item was still yielded, and the input is exhausted.
C1_Witness ==
    /\ done
    /\ \E i \in 1 .. Len(items) : items[i].res = "Err" /\ i < Len(items)

\* One call of next() of the running list parser at p.
ListNext(p, c) ==
    IF kind = "declarations"
    THEN DeclarationListParser_next(p, EndOfInput, {}, c)
    ELSE RuleListParser_next(kind = "stylesheet", p, EndOfInput, {}, c)

\* The starts of the items yielded from p on when every callback rejects
\* its input without reading any of it.
RECURSIVE RejectingRun(_)
RejectingRun(p) ==
    LET r == ListNext(p, NoChoice)
    IN  IF r.ret = "None" \/ r.pos <= p THEN <<>>
        ELSE <<r.item.start>> \o RejectingRun(r.pos)

\* C2: resynchronization does not depend on the callbacks: whatever they
\* return and read, the items start where they start when every callback
\* rejects its input unread, and there are as many of them.
C2_ResyncIndependent ==
    LET ref == RejectingRun(1)
    IN  /\ Len(items) <= Len(ref)
        /\ \A i \in 1 .. Len(items) : items[i].start = ref[i]
        /\ done => Len(items) = Len(ref)

\* A finished run of two items whose callbacks accepted the first one and
\* read from it.
C2_Witness ==
    /\ done
    /\ Len(items) = 2
    /\ items[1].res = "Ok"
    /\ items[2].res = "Ok"
    /\ \E i \in 1 .. Len(last.calls) : last.calls[i].seen # {}

\* C3: iteration terminates: every call of next() that yields an item
\* consumes at least one token and never moves past the end of the input, so
\* that next() returns None after at most as many calls as there are tokens.
C3_Terminates ==
    [][items' # items => pos' > pos /\ pos' <= EndOfInput]_vars

\* The iteration ended after yielding at least two items.
C3_Witness == done /\ Len(items) >= 2

\* The first token at or after a callback's parser that ends its scope.
ScopeEnd(call) ==
    CASE call.cb = "DeclarationParser::parse_value" ->
           FirstTopLevel(call.from, {"Semicolon"})
      [] call.cb = "AtRuleParser::parse_prelude" ->
           FirstTopLevel(call.from, {"Semicolon", "CurlyBracketBlock"})
      [] call.cb = "QualifiedRuleParser::parse_prelude" ->
           FirstTopLevel(call.from, {"CurlyBracketBlock"})
      [] OTHER -> EndOfInput

\* C4: the parsers given to parse_value and to the two parse_prelude never
\* return the token that ends their scope (`;` for a value, `;` or `{` for
\* an at-rule prelude, `{` for a qualified-rule prelude) nor a later one.
C4_CallbacksStayInScope ==
    \A i \in 1 .. Len(last.calls) :
        \A p \in last.calls[i].seen : p < ScopeEnd(last.calls[i])

\* parse_value, or the parse_prelude of an at-rule, read every token up to
\* the delimiter that ends its scope.
C4_Witness ==
    /\ Len(last.calls) >= 1
    /\ last.calls[1].cb \in {"AtRuleParser::parse_prelude",
                             "DeclarationParser::parse_value"}
    /\ ScopeEnd(last.calls[1]) <= Len(input)
    /\ ScopeEnd(last.calls[1]) - 1 \in last.calls[1].seen

\* The latest item is an at-rule whose parse_prelude returned result.
AtRuleWith(item, result) ==
    /\ item.kind = "at-rule"
    /\ Len(item.calls) >= 1
    /\ item.calls[1].cb = "AtRuleParser::parse_prelude"
    /\ item.calls[1].ret = result

\* Where the prelude of an at-rule ends: its first top-level `;` or `{`, or
\* the end of input.
PreludeEnd(item) ==
    FirstTopLevel(item.calls[1].from, {"Semicolon", "CurlyBracketBlock"})

\* The position after the `;` or the block at q.
AfterDelimiter(q) ==
    CASE TokenAt(q) = "None" -> EndOfInput
      [] TokenAt(q) = "CurlyBracketBlock" -> AfterBlock(q)
      [] OTHER -> q + 1

\* cb was invoked exactly once for the item, on a parser over the interior
\* of the block opened at b, and its result is the item.
BlockParsedBy(item, cb, b) ==
    /\ Cardinality(CallsOf(item, cb)) = 1
    /\ \A i \in CallsOf(item, cb) :
          /\ item.calls[i].from = b + 1
          /\ item.calls[i].seen \subseteq Interior(b)
          /\ item.res = item.calls[i].ret
    /\ item.res = "Err" => item.range[1] = item.start

\* C5: for an at-rule, parse_prelude is called exactly once and first;
\* parse_block at most once and only after WithBlock or OptionalBlock with a
\* block following the prelude; rule_without_block at most once and only
\* after OptionalBlock with `;` or the end of input following; never both.
C5_AtRuleCallbackOrder ==
    last.kind = "at-rule" =>
        LET P == CallsOf(last, "AtRuleParser::parse_prelude")
            B == CallsOf(last, "AtRuleParser::parse_block")
            W == CallsOf(last, "AtRuleParser::rule_without_block")
        IN  /\ P = {1}
            /\ Cardinality(B) <= 1
            /\ Cardinality(W) <= 1
            /\ B \cup W \cup P = 1 .. Len(last.calls)
            /\ B # {} =>
                  /\ last.calls[1].ret \in {"WithBlock", "OptionalBlock"}
                  /\ TokenAt(PreludeEnd(last)) = "CurlyBracketBlock"
            /\ W # {} =>
                  /\ last.calls[1].ret = "OptionalBlock"
                  /\ TokenAt(PreludeEnd(last)) \in {"Semicolon", "None"}
            /\ B = {} \/ W = {}

\* An at-rule for which parse_prelude and then parse_block were called.
C5_Witness ==
    /\ last.kind = "at-rule"
    /\ Len(last.calls) = 2
    /\ last.calls[2].cb = "AtRuleParser::parse_block"

\* C6: after WithBlock, a following block is parsed by parse_block over its
\* interior and the item is that result; with `;` or the end of input
\* instead the item is an error and parse_block is not invoked.
C6_WithBlock ==
    AtRuleWith(last, "WithBlock") =>
        IF TokenAt(PreludeEnd(last)) = "CurlyBracketBlock"
        THEN BlockParsedBy(last, "AtRuleParser::parse_block", PreludeEnd(last))
        ELSE /\ last.res = "Err"
             /\ CallsOf(last, "AtRuleParser::parse_block") = {}

\* A WithBlock at-rule that ends at a `;`.
C6_Witness ==
    /\ AtRuleWith(last, "WithBlock")
    /\ TokenAt(PreludeEnd(last)) = "Semicolon"
    /\ last.res = "Err"

\* C7: after WithoutBlock(rule), the item is Ok(rule) if `;` or the end of
\* input follows the prelude, and an error, the rule being dropped, if a
\* block follows.
C7_WithoutBlock ==
    AtRuleWith(last, "WithoutBlock") =>
        IF TokenAt(PreludeEnd(last)) = "CurlyBracketBlock"
        THEN last.res = "Err" /\ last.from = "none" /\ Len(last.calls) = 1
        ELSE last.res = "Ok" /\ last.from = "WithoutBlock" /\ Len(last.calls) = 1

\* A WithoutBlock at-rule followed by a block.
C7_Witness ==
    /\ AtRuleWith(last, "WithoutBlock")
    /\ TokenAt(PreludeEnd(last)) = "CurlyBracketBlock"
    /\ last.res = "Err"

\* C8: after OptionalBlock, `;` and the end of input alike make the item
\* Ok(rule_without_block(prelude)); a block is parsed by parse_block over
\* its interior and the item is that result.
C8_OptionalBlock ==
    AtRuleWith(last, "OptionalBlock") =>
        IF TokenAt(PreludeEnd(last)) = "CurlyBracketBlock"
        THEN BlockParsedBy(last, "AtRuleParser::parse_block", PreludeEnd(last))
        ELSE /\ last.res = "Ok"
             /\ last.from = "rule_without_block"
             /\ Cardinality(CallsOf(last, "AtRuleParser::rule_without_block")) = 1

\* An OptionalBlock at-rule whose prelude runs to the end of input.
C8_Witness ==
    /\ AtRuleWith(last, "OptionalBlock")
    /\ TokenAt(PreludeEnd(last)) = "None"
    /\ last.res = "Ok"

\* C9: when parse_prelude fails the item is an error, no other callback is
\* invoked, and the input up to and including the next top-level `;` or
\* block is discarded: the parser is left just after it, and the next item
\* starts at or after that position, never inside the block.
C9_RejectedPrelude ==
    [][items' # items =>
          /\ AtRuleWith(last', "Err") =>
                /\ last'.res = "Err"
                /\ Len(last'.calls) = 1
                /\ pos' = AfterDelimiter(PreludeEnd(last'))
          /\ AtRuleWith(last, "Err") =>
                /\ last'.start >= AfterDelimiter(PreludeEnd(last))
                /\ last'.start \notin Interior(PreludeEnd(last))]_vars

\* An at-rule whose prelude was rejected has been yielded; it had a closed
\* block with something in it, and the parser is just after that block with
\* more input to come.
C9_Witness ==
    /\ AtRuleWith(last, "Err")
    /\ TokenAt(PreludeEnd(last)) = "CurlyBracketBlock"
    /\ Interior(PreludeEnd(last)) # {}
    /\ TokenAt(pos - 1) = "CloseCurlyBracket"
    /\ pos = AfterBlock(PreludeEnd(last))
    /\ pos <= Len(input)

\* C10: a block that follows a qualified-rule prelude is always consumed:
\* if parse_prelude succeeded parse_block is invoked once over its interior
\* and its result is the item; if it failed the item is an error and
\* parse_block is not invoked; either way the parser is left just after the
\* block, where the next rule starts.
C10_QualifiedRuleBlock ==
    LET b == FirstTopLevel(last.start, {"CurlyBracketBlock"})
    IN  last.kind = "qualified rule" /\ TokenAt(b) = "CurlyBracketBlock" =>
            /\ Len(last.calls) >= 1
            /\ last.calls[1].cb = "QualifiedRuleParser::parse_prelude"
            /\ IF last.calls[1].ret = "Ok"
               THEN BlockParsedBy(last, "QualifiedRuleParser::parse_block", b)
               ELSE /\ last.res = "Err"
                    /\ CallsOf(last, "QualifiedRuleParser::parse_block") = {}
            /\ pos = AfterBlock(b)

\* A qualified rule whose prelude was rejected has been yielded; it had a
\* closed block with something in it, nothing of which was handed to
\* parse_block, and the parser is just after that block with more input to
\* come.
C10_Witness ==
    LET b == FirstTopLevel(last.start, {"CurlyBracketBlock"})
    IN  /\ last.kind = "qualified rule"
        /\ last.calls[1].ret = "Err"
        /\ b > last.start
        /\ TokenAt(b) = "CurlyBracketBlock"
        /\ Interior(b) # {}
        /\ TokenAt(pos - 1) = "CloseCurlyBracket"
        /\ pos = AfterBlock(b)
        /\ pos <= Len(input)

\* C11: a qualified rule whose prelude runs to the end of input with no
\* block is an error even when parse_prelude succeeded; parse_prelude is the
\* only callback invoked for it, and the parser is left at the end of input.
C11_MissingBlock ==
    LET b == FirstTopLevel(last.start, {"CurlyBracketBlock"})
    IN  last.kind = "qualified rule" /\ TokenAt(b) = "None" =>
            /\ last.res = "Err"
            /\ Len(last.calls) = 1
            /\ last.calls[1].cb = "QualifiedRuleParser::parse_prelude"
            /\ CallsOf(last, "QualifiedRuleParser::parse_block") = {}
            /\ last.range = <<last.start, EndOfInput>>
            /\ pos = EndOfInput

\* parse_prelude read the whole prelude of a qualified rule and accepted it,
\* the input ended without a block, and the rule was dropped.
C11_Witness ==
    /\ last.kind = "qualified rule"
    /\ TokenAt(FirstTopLevel(last.start, {"CurlyBracketBlock"})) = "None"
    /\ last.calls[1].ret = "Ok"
    /\ last.calls[1].seen # {}
    /\ last.res = "Err"

\* The block opened at b is never closed.
Unclosed(b) == \A j \in b + 1 .. EndOfInput : DepthAt(b, j) > 0

\* The input `a {`.
UnclosedRule == <<"Ident", "WhiteSpace", "CurlyBracketBlock">>

Blank == {"WhiteSpace", "Comment"}

\* The first token at or after p that is neither whitespace nor a comment,
\* or the end of input.
FirstNonBlank(p) ==
    LET S == {i \in p .. Len(input) : input[i] \notin Blank}
    IN  IF S = {} THEN EndOfInput ELSE Min(S)

\* The item of a declaration list that starts at s is neither an at-rule nor
\* a name followed by a colon.
Malformed(s) ==
    \/ TokenAt(s) \notin {"Ident", "AtKeyword"}
    \/ TokenAt(s) = "Ident" /\ TokenAt(FirstNonBlank(s + 1)) # "Colon"

\* C13: in a declaration list, an item that starts with neither an ident nor
\* an at-keyword, and an ident not followed by a colon, is an error for which
\* no callback is invoked; the input up to and including the next top-level
\* `;`, or up to the end of input, is consumed and is the range of the error.
C13_InvalidDeclaration ==
    kind = "declarations" /\ last.kind # "none" /\ Malformed(last.start) =>
        /\ last.res = "Err"
        /\ last.calls = <<>>
        /\ pos = AfterDelimiter(FirstTopLevel(last.start, {"Semicolon"}))
        /\ last.range = <<last.start, pos>>

\* A name with no colon after it was dropped up to and including its `;`,
\* and more input follows.
C13_Witness ==
    /\ kind = "declarations"
    /\ last.kind = "declaration"
    /\ Malformed(last.start)
    /\ last.res = "Err"
    /\ TokenAt(pos - 1) = "Semicolon"
    /\ pos <= Len(input)

\* The first token at or after p that the running list parser does not skip
\* between items, or the end of input.
FirstUnskipped(p) ==
    LET S == {i \in p .. Len(input) : input[i] \notin Skipped}
    IN  IF S = {} THEN EndOfInput ELSE Min(S)

\* The item is an at-rule whose prelude is followed by a block.
AtRuleWithBlock(item) ==
    item.kind = "at-rule" /\ TokenAt(PreludeEnd(item)) = "CurlyBracketBlock"

\* C14: in a declaration list an at-rule, accepted or rejected, that is
\* followed by a block ends just after the block: the next item starts at
\* the first token after the closing brace that is not skipped, no `;` being
\* needed; an item that starts with an ident ends only after the next
\* top-level `;` (or at the end of input), blocks inside it included.
C14_AtRuleEndsAtBlock ==
    [][kind = "declarations" /\ items' # items =>
          /\ AtRuleWithBlock(last') => pos' = AfterBlock(PreludeEnd(last'))
          /\ AtRuleWithBlock(last) =>
                last'.start = FirstUnskipped(AfterBlock(PreludeEnd(last)))
          /\ TokenAt(last'.start) = "Ident" =>
                pos' = AfterDelimiter(FirstTopLevel(last'.start, {"Semicolon"}))
       ]_vars

\* A declaration was yielded that starts right after the closing brace of
\* the block of the at-rule before it.
C14_Witness ==
    /\ kind = "declarations"
    /\ Len(items) >= 2
    /\ last.kind = "declaration"
    /\ LET rule == items[Len(items) - 1].start
           b == FirstTopLevel(rule + 1, {"Semicolon", "CurlyBracketBlock"})
       IN  /\ input[rule] = "AtKeyword"
           /\ TokenAt(b) = "CurlyBracketBlock"
           /\ TokenAt(last.start - 1) = "CloseCurlyBracket"
           /\ last.start = AfterBlock(b)

\* The segments of a declaration list: each starts at the start of input or
\* just after a top-level `;` and runs to the next top-level `;`.
SegmentStarts == {1} \cup {i + 1 : i \in TopLevel(1, {"Semicolon"})}

SegmentEnd(a) == FirstTopLevel(a, {"Semicolon"})

\* The first token that is not whitespace or a comment of each segment that
\* has one.
SegmentItems ==
    {FirstNonBlank(a) : a \in {x \in SegmentStarts : FirstNonBlank(x) < SegmentEnd(x)}}

\* color: red; bogus; width: 1px
DeclarationsExample ==
    <<"Ident", "Colon", "WhiteSpace", "Ident", "Semicolon", "WhiteSpace",
      "Ident", "Semicolon", "WhiteSpace", "Ident", "Colon", "WhiteSpace",
      "Dimension">>

\* C15: in a declaration list none of whose items starts with an at-keyword,
\* the items are, in source order, one for each segment between top-level
\* `;` that holds a token other than whitespace and comments, starting at
\* the first such token, and none for the other segments; a name followed by
\* a colon is what parse_value returns for it.  `color: red; bogus; width:
\* 1px` yields the result for color, an error covering bogus, the result for
\* width.
C15_OneItemPerSegment ==
    kind = "declarations" /\ (\A e \in SegmentItems : input[e] # "AtKeyword") =>
        /\ \A i \in 1 .. Len(items) :
              /\ items[i].start \in SegmentItems
              /\ Cardinality({e \in SegmentItems : e < items[i].start}) = i - 1
        /\ done => Len(items) = Cardinality(SegmentItems)
        /\ last.kind # "none" /\ ~Malformed(last.start) =>
              /\ Len(last.calls) = 1
              /\ last.calls[1].cb = "DeclarationParser::parse_value"
              /\ last.res = last.calls[1].ret
        /\ input = DeclarationsExample /\ done =>
              /\ <<items[1].start, items[2].start, items[3].start>> = <<1, 7, 10>>
              /\ items[2].res = "Err"

\* `color: red; bogus; width: 1px` was parsed to its end with a parse_value
\* that accepted both declarations.
C15_Witness ==
    /\ kind = "declarations"
    /\ input = DeclarationsExample
    /\ done
    /\ <<items[1].res, items[2].res, items[3].res>> = <<"Ok", "Err", "Ok">>
    /\ last.calls[1].seen # {}

\* C16: a rule list made by new_for_stylesheet yields no item for the
\* `<!--` and `-->` between rules: an item starts at the first token that is
\* not whitespace, a comment, `<!--` or `-->`.  One made by
\* new_for_nested_rule does not skip them: a `<!--` or `-->` where a rule may
\* start begins a qualified rule, whose parse_prelude is given a parser that
\* starts at that token and returns it first.
C16_CdoCdc ==
    [][items' # items =>
          /\ kind = "stylesheet" =>
                /\ TokenAt(last'.start) \notin {"CDO", "CDC"}
                /\ last'.start = FirstUnskipped(pos)
                /\ \A i \in pos .. last'.start - 1 :
                      input[i] \in {"WhiteSpace", "Comment", "CDO", "CDC"}
          /\ kind = "nested" /\ TokenAt(FirstNonBlank(pos)) \in {"CDO", "CDC"} =>
                /\ last'.start = FirstNonBlank(pos)
                /\ last'.kind = "qualified rule"
                /\ last'.calls[1].cb = "QualifiedRuleParser::parse_prelude"
                /\ last'.calls[1].from = last'.start
                /\ last'.calls[1].seen # {} => last'.start \in last'.calls[1].seen
       ]_vars

\* In a nested rule list a qualified rule that starts with `<!--` was
\* yielded after an earlier rule, and its parse_prelude read the `<!--`.
C16_Witness ==
    /\ kind = "nested"
    /\ Len(items) >= 2
    /\ last.kind = "qualified rule"
    /\ TokenAt(last.start) = "CDO"
    /\ last.start \in last.calls[1].seen

\* Where the rule that starts at the item's start ends, read off the input:
\* after the `;` or the block of an at-rule, after the block of a qualified
\* rule.
RuleEnd(item) ==
    IF item.kind = "at-rule" THEN AfterDelimiter(PreludeEnd(item))
    ELSE AfterDelimiter(FirstTopLevel(item.start, {"CurlyBracketBlock"}))

\* C17: parse_one_declaration and parse_one_rule return an error whenever a
\* token other than whitespace or a comment is left after the single item (a
\* rule ends after its `;` or block, a declaration where parse_value stopped
\* reading), also when the callbacks accepted the item.
C17_ExtraInput ==
    done =>
        /\ last.kind \in {"at-rule", "qualified rule"} => pos = RuleEnd(last)
        /\ FirstNonBlank(pos) <= Len(input) => items[1].res = "Err"

\* parse_one_rule returned an error for a rule that the callbacks accepted
\* and that is followed by another token.
C17_Witness ==
    /\ kind = "one_rule"
    /\ done
    /\ last.res = "Ok"
    /\ pos = RuleEnd(last)
    /\ FirstNonBlank(pos) <= Len(input)
    /\ items[1].res = "Err"

IsImportant(t) ==
    /\ Len(t) = Len(Important)
    /\ \A i \in 1 .. Len(t) : t[i] \in {Important[i], Important[i] - 32}

\* C19: parse_important succeeds if and only if the next token is the delim
\* `!` and the token after it is an ident that is `important` up to the case
\* of its ASCII letters (whitespace before either is passed over); a letter
\* outside ASCII never matches.  In every other case it returns Err.
C19_ParseImportant ==
    LET bang == FirstNonBlank(1)
        ident == FirstNonBlank(bang + 1)
    IN  kind = "important" /\ done =>
            (items[1].res = "Ok" <=>
                /\ TokenAt(bang) = "Delim"
                /\ text[bang] = <<Bang>>
                /\ TokenAt(ident) = "Ident"
                /\ IsImportant(text[ident]))

\* parse_important accepted `!` followed by an ident that is not written
\* `important` in lower case.
C19_Witness ==
    /\ kind = "important"
    /\ done
    /\ items[1].res = "Ok"
    /\ \E i \in 1 .. Len(input) : input[i] = "Ident" /\ text[i] # Important

\* C20: a DeclarationListParser or RuleListParser yields at most as many
\* items, Ok and Err together, as its input has tokens.
C20_ItemsAtMostTokens ==
    kind \in {"declarations", "stylesheet", "nested"} => Len(items) <= Len(input)

\* The iteration ended having yielded as many items as the input has tokens:
\* the bound is reached.
C20_Witness ==
    /\ kind \in {"declarations", "stylesheet", "nested"}
    /\ done
    /\ Len(input) >= 1
    /\ Len(items) = Len(input)

\* The tokens that RuleListParser::next and parse_one_rule pass over
\* before a rule: whitespace and comments, and CDO and CDC in a stylesheet.
PassedOver ==
    {"WhiteSpace", "Comment"}
        \cup (IF kind = "stylesheet" THEN {"CDO", "CDC"} ELSE {})

\* C26: when RuleListParser::next or parse_one_rule meets a token that
\* starts a qualified rule (the first that is not passed over, and not an
\* at-keyword), the rule starts at that token and parse_prelude is given a
\* parser positioned before it, so the first token parse_prelude reads is
\* that very token.
C26_ResetBeforePrelude ==
    [][items' # items /\ last'.kind = "qualified rule" =>
          /\ last'.start \in pos .. Len(input)
          /\ \A i \in pos .. last'.start - 1 : input[i] \in PassedOver
          /\ input[last'.start] \notin PassedOver \cup {"AtKeyword"}
          /\ last'.calls[1].cb = "QualifiedRuleParser::parse_prelude"
          /\ last'.calls[1].from = last'.start
          /\ last'.calls[1].seen # {} =>
                /\ last'.start \in last'.calls[1].seen
                /\ \A q \in last'.calls[1].seen : q >= last'.start]_vars

\* A qualified rule after whitespace has been yielded, and its parse_prelude
\* read the first token of the rule.
C26_Witness ==
    /\ kind \in {"stylesheet", "nested", "one_rule"}
    /\ last.kind = "qualified rule"
    /\ last.start > 1
    /\ input[last.start - 1] = "WhiteSpace"
    /\ input[last.start] = "Ident"
    /\ last.start \in last.calls[1].seen

\* C25: the unreachable!() branches of parse_at_rule are never reached:
\* after the prelude, parsed with the delimiters `;` and `{`, the next
\* token of the outer parser is a `;`, a `{` block or the end of its input,
\* whatever parse_prelude returned and however little of the prelude it
\* read.
C25_Unreachable ==
    last.kind = "at-rule" =>
        /\ last.res # "unreachable"
        /\ last.follow \in {"Semicolon", "CurlyBracketBlock", "None"}
        /\ \A i \in 1 .. Len(items) : items[i].res # "unreachable"

\* An at-rule has been yielded whose parse_prelude read nothing of a
\* prelude that holds an identifier before its `;` or block.
C25_Witness ==
    /\ kind \in {"declarations", "stylesheet", "nested"}
    /\ last.kind = "at-rule"
    /\ last.calls[1].seen = {}
    /\ last.start < Len(input)
    /\ input[last.start + 1] = "Ident"
    /\ last.follow \in {"Semicolon", "CurlyBracketBlock"}

\* C27: every error range start..end that DeclarationListParser and
\* RuleListParser yield has start <= end and starts exactly at the first
\* token of the failed item: the whitespace, comments, semicolons and
\* CDO/CDC passed over before the item are not in it, nor is anything of an
\* earlier item, since the range lies between the position of the parser
\* before the call and its position after it; so the range of an item
\* begins where the range of the item before it has ended, or later.
C27_ErrorRanges ==
    [][items' # items /\ last'.res = "Err" =>
          /\ last'.range[1] <= last'.range[2]
          /\ last'.range[1] = last'.start
          /\ last'.start = FirstUnskipped(pos)
          /\ last'.start <= Len(input)
          /\ pos <= last'.range[1]
          /\ last'.range[2] <= pos'
          /\ last.res = "Err" => last.range[2] <= last'.range[1]]_vars

\* Two items in a row have failed; the second comes after something that
\* was passed over and its range is not empty.
C27_Witness ==
    /\ kind \in {"declarations", "stylesheet", "nested"}
    /\ Len(items) >= 2
    /\ items[Len(items) - 1].res = "Err"
    /\ last.res = "Err"
    /\ input[last.start - 1] \in Skipped
    /\ last.range[1] < last.range[2]

----------------------------------------------------------------------------
(* parse_nth (src/nth.rs).                                                 *)

\* The An+B notation of CSS Syntax, read off the component values without
\* the code: what a list denotes, if it is an An+B expression at all.

NotWhiteSpace(t) == t.type # "WhiteSpace"

\* ASCII upper case letters as lower case, every other character kept.
Folded(string) ==
    [i \in 1 .. Len(string) |->
        IF string[i] \in 65 .. 90 THEN string[i] + 32 ELSE string[i]]

IsInteger(t) == t.type = "Number" /\ t.num.int_value # <<>>

IsSigned(t) == IsInteger(t) /\ t.num.representation[1] \in {43, 45}

IsSignless(t) == IsInteger(t) /\ ~IsSigned(t)

\* The integer an int_value stands for, <<>> when it is outside i32.
ValueOf(num) ==
    IF num.int_value[1].high = 0 THEN <<num.int_value[1].low>> ELSE <<>>

\* The negation of an i64 [high, low], exactly.
WideNegated(v) ==
    IF v.low = MinI32 THEN [high |-> 1 - v.high, low |-> MinI32]
    ELSE [high |-> -v.high, low |-> -v.low]

\* The negated integer of an int_value, <<>> when it is outside i32.
NegatedValueOf(num) ==
    LET v == WideNegated(num.int_value[1])
    IN  IF v.high = 0 THEN <<v.low>> ELSE <<>>

\* The integer that `-` followed by the digits d denotes, <<>> when it is
\* below the least i32.
RECURSIVE MinusDigits(_)
MinusDigits(d) ==
    IF d = <<>> THEN <<0>>
    ELSE LET front == MinusDigits(SubSeq(d, 1, Len(d) - 1))
             unit == d[Len(d)] - 48
         IN  IF front = <<>> THEN <<>>
             ELSE IF front[1] < -(MaxI32 \div 10) THEN <<>>
             ELSE IF 10 * front[1] < MinI32 + unit THEN <<>>
             ELSE <<10 * front[1] - unit>>

IsNDashDigits(string) ==
    /\ Len(string) >= 3
    /\ string[1] = 110
    /\ string[2] = 45
    /\ \A i \in 3 .. Len(string) : string[i] \in 48 .. 57

\* What the part up to and including `n` denotes: A, then either B (form
\* "done"), or that a signless B must follow `n-`, or that `n` ends it.
\* name is the identifier or unit in lower case, a the A of a bare `n`.
NPart(name, a) ==
    CASE name = <<110>> -> {[a |-> a, form |-> "n", b |-> <<0>>]}
      [] name = <<110, 45>> -> {[a |-> a, form |-> "n-", b |-> <<0>>]}
      [] IsNDashDigits(name) ->
           {[a |-> a, form |-> "done",
             b |-> MinusDigits(SubSeq(name, 3, Len(name)))]}
      [] OTHER -> {}

\* What B denotes after the part up to `n`, from the component values
\* that follow it (whitespace removed).
BPart(head, rest) ==
    CASE head.form = "done" ->
           IF rest = <<>> THEN {[a |-> head.a, b |-> head.b]} ELSE {}
      [] head.form = "n-" ->
           IF Len(rest) = 1 /\ IsSignless(rest[1])
           THEN {[a |-> head.a, b |-> NegatedValueOf(rest[1].num)]}
           ELSE {}
      [] OTHER ->
           CASE rest = <<>> -> {[a |-> head.a, b |-> <<0>>]}
             [] Len(rest) = 1 /\ IsSigned(rest[1]) ->
                  {[a |-> head.a, b |-> ValueOf(rest[1].num)]}
             [] /\ Len(rest) = 2
                /\ rest[1].type = "Delim"
                /\ rest[1].text \in {<<43>>, <<45>>}
                /\ IsSignless(rest[2]) ->
                  {[a |-> head.a,
                    b |-> IF rest[1].text = <<43>>
                          THEN ValueOf(rest[2].num)
                          ELSE NegatedValueOf(rest[2].num)]}
             [] OTHER -> {}

\* The pairs [a, b] that the list cv denotes: none when cv is not an An+B
\* expression, else one, whose a and b are <<value>> (<<>> for a value
\* outside i32).
Denotes(cv) ==
    LET w == SelectSeq(cv, NotWhiteSpace)
        first == CHOOSE i \in 1 .. Len(cv) :
                     /\ cv[i].type # "WhiteSpace"
                     /\ \A j \in 1 .. i - 1 : cv[j].type = "WhiteSpace"
        name == Folded(w[1].text)
    IN  IF w = <<>> THEN {}
        ELSE CASE IsInteger(w[1]) ->
                    IF Len(w) = 1
                    THEN {[a |-> <<0>>, b |-> ValueOf(w[1].num)]}
                    ELSE {}
               [] w[1].type = "Dimension" /\ w[1].num.int_value # <<>> ->
                    UNION {BPart(h, Tail(w)) :
                             h \in NPart(name, ValueOf(w[1].num))}
               [] w[1].type = "Ident" ->
                    CASE name = <<101, 118, 101, 110>> /\ Len(w) = 1 ->
                           {[a |-> <<2>>, b |-> <<0>>]}
                      [] name = <<111, 100, 100>> /\ Len(w) = 1 ->
                           {[a |-> <<2>>, b |-> <<1>>]}
                      [] Len(name) >= 1 /\ name[1] = 45 ->
                           UNION {BPart(h, Tail(w)) :
                                    h \in NPart(Tail(name), <<-1>>)}
                      [] OTHER ->
                           UNION {BPart(h, Tail(w)) :
                                    h \in NPart(name, <<1>>)}
               [] /\ w[1].type = "Delim"
                  /\ w[1].text = <<43>>
                  /\ first < Len(cv)
                  /\ cv[first + 1].type = "Ident" ->
                    UNION {BPart(h, Tail(Tail(w))) :
                             h \in NPart(Folded(w[2].text), <<1>>)}
               [] OTHER -> {}

\* parse_nth returned Ok with the pair d.
ReturnsOk(d) == last.res = "Ok" /\ d.a = <<last.a>> /\ d.b = <<last.b>>

\* C21: parse_nth returns Ok((A, B)) for every list that spells an An+B
\* expression, with the values the notation denotes (a lone integer b is
\* (0, b), even is (2, 0), odd is (2, 1), <a>n has A = a, n and +n have
\* A = 1, -n has A = -1, an omitted B is 0), leading whitespace ignored.
C21_ReturnsDenoted ==
    kind = "nth" /\ done =>
        \A d \in Denotes(ComponentValues) : ReturnsOk(d)

\* The same for the lists whose A and B are in i32: these are all the
\* lists of C21 on which parse_n_dash_digits does not panic and no
\* conversion of an int_value to i32 drops a high half.
C21_ReturnsDenotedInI32 ==
    kind = "nth" /\ done =>
        \A d \in Denotes(ComponentValues) :
            d.a # <<>> /\ d.b # <<>> => ReturnsOk(d)

\* Conversely parse_nth returns Ok for no other list.
C21_OkOnlyDenoted ==
    kind = "nth" /\ done /\ last.res = "Ok" =>
        Denotes(ComponentValues) # {}

\* The first component value of the input that is not whitespace, 0 if
\* there is none.
FirstValue ==
    IF \A i \in 1 .. Len(input) : input[i] = "WhiteSpace" THEN 0
    ELSE CHOOSE i \in 1 .. Len(input) :
            /\ input[i] # "WhiteSpace"
            /\ \A j \in 1 .. i - 1 : input[j] = "WhiteSpace"

\* The last component value before i, and the first after i, that is not
\* whitespace (there is one on each side of an inner whitespace).
ValueBefore(i) ==
    CHOOSE j \in 1 .. i - 1 :
        /\ input[j] # "WhiteSpace"
        /\ \A k \in j + 1 .. i - 1 : input[k] = "WhiteSpace"

ValueAfter(i) ==
    CHOOSE j \in i + 1 .. Len(input) :
        /\ input[j] # "WhiteSpace"
        /\ \A k \in i + 1 .. j - 1 : input[k] = "WhiteSpace"

\* Whitespace with a component value on each side.
InnerWhiteSpace(i) ==
    /\ input[i] = "WhiteSpace"
    /\ \E j \in 1 .. i - 1 : input[j] # "WhiteSpace"
    /\ \E j \in i + 1 .. Len(input) : input[j] # "WhiteSpace"

\* The identifier or unit at j ends in `n`, or in `n-`.
EndsInN(j) ==
    /\ input[j] \in {"Ident", "Dimension"}
    /\ text[j] # <<>>
    /\ text[j][Len(text[j])] \in {110, 78}

EndsInNDash(j) ==
    /\ input[j] \in {"Ident", "Dimension"}
    /\ Len(text[j]) >= 2
    /\ text[j][Len(text[j])] = 45
    /\ text[j][Len(text[j]) - 1] \in {110, 78}

IsSignDelim(j) == input[j] = "Delim" /\ text[j] \in {<<43>>, <<45>>}

\* C22: parse_nth returns Err when the leading `+` is followed by
\* whitespace, by anything else that is not an identifier, or by nothing;
\* in a list it accepts, whitespace between two component values stands
\* only between `n` and the sign of B or between a sign that is apart from
\* the digits of B and those digits.
C22_WhitespaceAfterSign ==
    kind = "nth" /\ done =>
        /\ ( /\ FirstValue # 0
             /\ IsSignDelim(FirstValue)
             /\ text[FirstValue] = <<43>>
             /\ \/ FirstValue = Len(input)
                \/ input[FirstValue + 1] # "Ident" )
           => last.res = "Err"
        /\ last.res = "Ok" =>
              \A i \in 1 .. Len(input) : InnerWhiteSpace(i) =>
                  LET p == ValueBefore(i)
                      q == ValueAfter(i)
                  IN  \/ /\ EndsInN(p)
                         /\ \/ IsSignDelim(q)
                            \/ IsSigned(ComponentValues[q])
                      \/ /\ EndsInNDash(p) \/ (IsSignDelim(p) /\ p # FirstValue)
                         /\ IsSignless(ComponentValues[q])

\* `+ n` is rejected.
C22_Witness ==
    /\ kind = "nth"
    /\ done
    /\ input = <<"Delim", "WhiteSpace", "Ident">>
    /\ text[1] = <<43>>
    /\ text[3] = <<110>>
    /\ last.res = "Err"

\* Changes of case of the ASCII letters of a string: all to upper case,
\* and each letter to its other case.
UpperCased(string) ==
    [i \in 1 .. Len(string) |->
        IF string[i] \in 97 .. 122 THEN string[i] - 32 ELSE string[i]]

CaseSwapped(string) ==
    [i \in 1 .. Len(string) |->
        CASE string[i] \in 97 .. 122 -> string[i] - 32
          [] string[i] \in 65 .. 90 -> string[i] + 32
          [] OTHER -> string[i]]

\* Every other letter, from the first or from the second, in its other
\* case.
CaseMixed(string, odd) ==
    [i \in 1 .. Len(string) |->
        IF (i % 2 = 1) = odd THEN CaseSwapped(string)[i] ELSE string[i]]

CaseMixedOdd(string) == CaseMixed(string, TRUE)

CaseMixedEven(string) == CaseMixed(string, FALSE)

\* The list cv with the case of its identifiers and units changed by F.
WithCase(cv, F(_)) ==
    [i \in 1 .. Len(cv) |->
        IF cv[i].type \in {"Ident", "Dimension"}
        THEN [cv[i] EXCEPT !.text = F(cv[i].text)]
        ELSE cv[i]]

\* The identifier or unit that parse_nth compares with its keywords: the
\* first component value, or the one right after a leading `+`; 0 if the
\* list has none.
KeywordValue ==
    CASE FirstValue = 0 -> 0
      [] input[FirstValue] \in {"Ident", "Dimension"} -> FirstValue
      [] /\ IsSignDelim(FirstValue)
         /\ text[FirstValue] = <<43>>
         /\ FirstValue < Len(input)
         /\ input[FirstValue + 1] = "Ident" -> FirstValue + 1
      [] OTHER -> 0

\* C23: the result of parse_nth is the same for the input with the ASCII
\* letters of its identifiers and units in another case (all lower, all
\* upper, each swapped, every other one swapped), and a list whose
\* identifier or unit holds a non-ASCII character is never accepted as if
\* that character were a letter of `n`, `even` or `odd`.
C23_AsciiCaseInsensitive ==
    kind = "nth" /\ done =>
        /\ parse_nth(WithCase(ComponentValues, Folded)) = last
        /\ parse_nth(WithCase(ComponentValues, UpperCased)) = last
        /\ parse_nth(WithCase(ComponentValues, CaseSwapped)) = last
        /\ parse_nth(WithCase(ComponentValues, CaseMixedOdd)) = last
        /\ parse_nth(WithCase(ComponentValues, CaseMixedEven)) = last
        /\ ( /\ KeywordValue # 0
             /\ \E i \in 1 .. Len(text[KeywordValue]) :
                    text[KeywordValue][i] > 127 )
           => last.res = "Err"

\* `ODD` is (2, 1), as `odd` is.
C23_Witness ==
    /\ kind = "nth"
    /\ done
    /\ input = <<"Ident">>
    /\ text[1] = <<79, 68, 68>>
    /\ last.res = "Ok"
    /\ last.a = 2
    /\ last.b = 1

----------------------------------------------------------------------------
(* almost_equals (src/tests.rs).                                           *)

\* A JSON value that is not an object and holds none.
RECURSIVE NoObject(_)
NoObject(a) ==
    CASE a.k = "Object" -> FALSE
      [] a.k = "List" -> \A i \in 1 .. Len(a.v) : NoObject(a.v[i])
      [] OTHER -> TRUE

\* Structural equality of two JSON values without objects.
RECURSIVE StructurallyEqual(_, _)
StructurallyEqual(a, b) ==
    /\ a.k = b.k
    /\ CASE a.k = "Number" -> Abs(a.v - b.v) < 10
          [] a.k = "List" ->
               /\ Len(a.v) = Len(b.v)
               /\ \A i \in 1 .. Len(a.v) : StructurallyEqual(a.v[i], b.v[i])
          [] a.k = "Null" -> TRUE
          [] OTHER -> a.v = b.v

\* C24: almost_equals(a, b) is true if and only if a and b are
\* structurally equal (same kind, strings and booleans equal, numbers less
\* than 1e-6 apart, lists of the same length with elements pairwise
\* almost_equals): a list that is a strict prefix of the other, or longer,
\* is not accepted.
C24_StructuralEquality ==
    kind = "json" /\ done /\ NoObject(input[1]) /\ NoObject(input[2]) =>
        (last.equals = "true" <=> StructurallyEqual(input[1], input[2]))

\* What the code does compare: almost_equals is true exactly when the two
\* values are structurally equal up to the length of the shorter of every
\* two lists compared.
RECURSIVE EqualUpToShorter(_, _)
EqualUpToShorter(a, b) ==
    /\ a.k = b.k
    /\ CASE a.k = "Number" -> Abs(a.v - b.v) < 10
          [] a.k = "List" ->
               \A i \in 1 .. Len(a.v) :
                   i <= Len(b.v) => EqualUpToShorter(a.v[i], b.v[i])
          [] a.k = "Null" -> TRUE
          [] OTHER -> a.v = b.v

C24_EqualityUpToShorter ==
    kind = "json" /\ done /\ NoObject(input[1]) /\ NoObject(input[2]) =>
        (last.equals = "true" <=> EqualUpToShorter(input[1], input[2]))

\* The part of the list cv up to `n` or `n-`, when a B is still to come:
\* its form, the A it denotes, and the number k of component values it
\* takes (two for a `+` with its identifier).
Heads(cv) ==
    LET w == SelectSeq(cv, NotWhiteSpace)
        open(H, k) == {[form |-> h.form, a |-> h.a, k |-> k] :
                          h \in {x \in H : x.form # "done"}}
    IN  IF w = <<>> THEN {}
        ELSE CASE w[1].type = "Dimension" /\ w[1].num.int_value # <<>> ->
                    open(NPart(Folded(w[1].text), ValueOf(w[1].num)), 1)
               [] w[1].type = "Ident" ->
                    IF Len(w[1].text) >= 1 /\ w[1].text[1] = 45
                    THEN open(NPart(Folded(Tail(w[1].text)), <<-1>>), 1)
                    ELSE open(NPart(Folded(w[1].text), <<1>>), 1)
               [] /\ w[1].type = "Delim"
                  /\ w[1].text = <<43>>
                  /\ FirstValue < Len(cv)
                  /\ cv[FirstValue + 1].type = "Ident" ->
                    open(NPart(Folded(w[2].text), <<1>>), 2)
               [] OTHER -> {}

IsSign(t) == t.type = "Delim" /\ t.text \in {<<43>>, <<45>>}

\* parse_nth returned Ok with this A and B.
ReturnsPair(a, b) == ReturnsOk([a |-> a, b |-> b])

\* C28: the sign of B is read off the first byte of the representation of
\* the number. Right after `n` a Number is accepted as B exactly if it is
\* an integer written with `+` or `-`; after a `+` or `-` Delim that
\* follows `n`, and after an identifier or unit that ends in `n-`, a Number
\* is accepted exactly if it is an integer written without a sign, and B
\* has the sign of the Delim, or is negative after `n-`; anything else
\* after `n`, after the Delim or after `n-` gives Err.
C28_SignOfB ==
    kind = "nth" /\ done =>
        \A h \in Heads(ComponentValues) :
            LET w == SelectSeq(ComponentValues, NotWhiteSpace)
                rest == SubSeq(w, h.k + 1, Len(w))
                ok == last.res = "Ok"
                signed == Len(rest) = 1 /\ IsSigned(rest[1])
                signless == Len(rest) = 1 /\ IsSignless(rest[1])
                afterSign == /\ Len(rest) = 2
                             /\ IsSign(rest[1])
                             /\ IsSignless(rest[2])
            IN  /\ last.res \in {"Ok", "Err"}
                /\ h.form = "n" /\ rest # <<>> =>
                      /\ ok <=> signed \/ afterSign
                      /\ ok /\ signed =>
                            ReturnsPair(h.a, ValueOf(rest[1].num))
                      /\ ok /\ afterSign /\ rest[1].text = <<43>> =>
                            ReturnsPair(h.a, ValueOf(rest[2].num))
                      /\ ok /\ afterSign /\ rest[1].text = <<45>> =>
                            ReturnsPair(h.a, NegatedValueOf(rest[2].num))
                /\ h.form = "n-" =>
                      /\ ok <=> signless
                      /\ ok => ReturnsPair(h.a, NegatedValueOf(rest[1].num))

\* Every int_value of the list is in i32.
ValuesInI32(cv) ==
    \A i \in 1 .. Len(cv) :
        cv[i].type \in {"Number", "Dimension"} /\ cv[i].num.int_value # <<>>
        => cv[i].num.int_value[1].high = 0

\* The same for the lists whose int_values are all in i32.
C28_SignOfBInI32 ==
    kind = "nth" /\ done /\ ValuesInI32(ComponentValues) => C28_SignOfB

\* `n +3` is (1, 3): the number after `n` is written with a sign.
C28_Witness ==
    /\ kind = "nth"
    /\ done
    /\ input = <<"Ident", "WhiteSpace", "Number">>
    /\ text[1] = <<110>>
    /\ number[3].representation = <<43, 51>>
    /\ last.res = "Ok"
    /\ last.a = 1
    /\ last.b = 3

\* The list holds a complete An+B expression followed by something that is
\* not whitespace and is no part of the expression.
FollowedBySomething(cv) ==
    /\ Denotes(cv) = {}
    /\ \E j \in 1 .. Len(cv) - 1 :
          /\ Denotes(SubSeq(cv, 1, j)) # {}
          /\ \E i \in j + 1 .. Len(cv) : cv[i].type # "WhiteSpace"

\* The list is an An+B expression with whitespace after it.
FollowedByWhiteSpace(cv) ==
    /\ Denotes(cv) # {}
    /\ cv[Len(cv)].type = "WhiteSpace"

\* C29: parse_nth returns Err whenever a component value other than
\* whitespace follows a complete An+B expression, it accepts whitespace
\* after the expression, and it never returns Ok with a component value
\* other than whitespace left unread.
C29_NothingAfter ==
    kind = "nth" /\ done =>
        /\ FollowedBySomething(ComponentValues) => last.res = "Err"
        /\ FollowedByWhiteSpace(ComponentValues) => last.res = "Ok"
        /\ last.res = "Ok" =>
              \A i \in last.iter .. Len(input) : input[i] = "WhiteSpace"

\* The same wherever parse_n_dash_digits does not panic.
C29_NothingAfterUnlessPanic ==
    kind = "nth" /\ done /\ last.res # "panic" =>
        /\ FollowedBySomething(ComponentValues) => last.res = "Err"
        /\ FollowedByWhiteSpace(ComponentValues) => last.res = "Ok"
        /\ last.res = "Ok" => last.iter > Len(input)

\* The identifiers and units of the input, in lower case, and their
\* endings after a leading `-`: the strings that parse_n_dash_digits is
\* given.
NamesOfInput ==
    LET names == {Folded(text[i]) :
                     i \in {j \in 1 .. Len(input) :
                                input[j] \in {"Ident", "Dimension"}}}
    IN  names \cup {Tail(name) : name \in {x \in names : x # <<>>}}

\* C30: the assertion of parse_n_dash_digits holds for every string that
\* passes its guard (`n-` and one or more ASCII digits, however many), so
\* parse_nth never panics and returns Ok or Err for every input.
C30_AssertionHolds ==
    kind = "nth" /\ done =>
        /\ last.res \in {"Ok", "Err"}
        /\ \A name \in NamesOfInput :
              IsNDashDigits(name) => parse_n_dash_digits(name).ret = "Some"

\* The assertion does hold for the digits of a number that is in i32.
C30_AssertionHoldsInI32 ==
    kind = "nth" /\ done =>
        /\ last.res = "panic" =>
              \E name \in NamesOfInput :
                  /\ IsNDashDigits(name)
                  /\ MinusDigits(SubSeq(name, 3, Len(name))) = <<>>
        /\ \A name \in NamesOfInput :
              /\ IsNDashDigits(name)
              /\ MinusDigits(SubSeq(name, 3, Len(name))) # <<>>
              => parse_n_dash_digits(name).ret = "Some"

\* The A and B of an Ok result are the int_values of the tokens of the
\* list w (whitespace left out) that they come from: A is the int_value of a
\* leading Dimension, B the int_value of a final Number, negated when the
\* Number is written without a sign and follows a `-` Delim or `n-`.
ValuesKept(w) ==
    LET n == Len(w)
        asWritten == \/ n = 1
                     \/ IsSigned(w[n])
                     \/ IsSign(w[n - 1]) /\ w[n - 1].text = <<43>>
    IN  /\ n >= 1
        /\ w[1].type = "Dimension" => ValueOf(w[1].num) = <<last.a>>
        /\ w[n].type = "Number" =>
              IF asWritten THEN ValueOf(w[n].num) = <<last.b>>
              ELSE NegatedValueOf(w[n].num) = <<last.b>>

\* C31: the A and B that parse_nth returns equal the int_values of the
\* Number and Dimension tokens they come from, with the sign applied for a
\* B written without one, for every int_value a token can carry: neither
\* the conversion to i32 nor the multiplication by the sign wraps around
\* or changes the value.
C31_ValuesKept ==
    kind = "nth" /\ done /\ last.res = "Ok" =>
        ValuesKept(SelectSeq(ComponentValues, NotWhiteSpace))

\* The same for the lists whose int_values are all in i32: there the
\* conversion keeps the value and the multiplication by the sign, of a
\* number written without one, stays in i32.
C31_ValuesKeptInI32 ==
    kind = "nth" /\ done /\ last.res = "Ok"
    /\ ValuesInI32(ComponentValues) =>
        ValuesKept(SelectSeq(ComponentValues, NotWhiteSpace))

\* An Ok result whose B comes from a Number with an int_value outside i32.
C31_Witness ==
    /\ kind = "nth"
    /\ done
    /\ last.res = "Ok"
    /\ input = <<"Number">>
    /\ number[1].int_value = <<[high |-> 1, low |-> 1]>>
    /\ last.a = 0
    /\ last.b = 1

====
